---- MODULE Spec2Model ----
(***************************************************************************)
(* Model of leohahn/thor: the bencoding codec (bencoding/src/ser/mod.rs,   *)
(* bencoding/src/de.rs) and the UDP tracker client (client/src/tracker.rs).*)
(*                                                                         *)
(* Bytes are integers 0..255 and byte strings are sequences of them.       *)
(* A serde value is a tuple whose first element names its kind:            *)
(*   <<"int", n>>  <<"bool", b>>  <<"f64">>  <<"str", bytes>>              *)
(*   <<"bytes", bytes>>  <<"none">>  <<"some", v>>  <<"seq", vs>>          *)
(*   <<"tuple", vs>>  <<"map", <<<<k, v>>, ...>>>>  (iteration order)      *)
(*   <<"struct", <<<<name, v>>, ...>>>>             (declaration order)    *)
(*   <<"unit_variant", name>>  <<"newtype_variant", name, v>>              *)
(*   <<"tuple_variant", name, vs>>  <<"struct_variant", name, fields>>     *)
(***************************************************************************)
EXTENDS Integers, Sequences, FiniteSets, TLC

VARIABLES
    build,      \* "debug" or "release": overflow checks on or off (rustc profile)
    ty,         \* codec: the schema (Rust type) of the job
    val,        \* codec: the value handed to to_bytes, or <<"raw", tag, info>>
                \*        for a job that starts from bytes
    wire,       \* codec: the bytes handed to from_bytes
    enc,        \* codec: result of to_bytes(val)
    dec,        \* codec: result of from_bytes(wire)
    enc2,       \* codec: result of to_bytes(dec.val)
    pc,         \* codec: position of the job
    busy,       \* tracker: the local UDP ports another socket holds
    port,       \* tracker: the port try_bind_socket bound, 0 before it
    tried,      \* tracker: the ports try_bind_socket tried to bind, in order
    conn,       \* tracker: <<>> or <<the Connection object>>
    tpc,        \* tracker: where the client is in its operation
    req,        \* tracker: the operation under way and its transaction_id
    sent,       \* tracker: the last request written to the socket
    inbox,      \* tracker: datagrams the socket has queued for recv
    rx,         \* tracker: <<>> or <<buf and len after recv returned>>
    res,        \* tracker: what the last operation returned
    ops,        \* tracker: announces and scrapes started on the Connection
    abandoned   \* tracker: the requests whose recv timed out; a response to
                \*          one of them may still be on its way

codecVars == <<build, ty, val, wire, enc, dec, enc2, pc>>

trackerVars == <<busy, port, tried, conn, tpc, req, sent, inbox, rx, res, ops,
                 abandoned>>

vars == <<codecVars, trackerVars>>

----------------------------------------------------------------------------
(* ASCII bytes the format gives a meaning to *)
B_d == 100
B_e == 101
B_i == 105
B_l == 108
B_colon == 58
B_minus == 45
B_0 == 48
B_9 == 57

IsDigit(b) == b >= B_0 /\ b <= B_9

Min(a, b) == IF a < b THEN a ELSE b

RECURSIVE Digits(_)
\* decimal digits of n >= 0, as `write!(buf, "{}", n)` prints them
Digits(n) == IF n < 10 THEN <<B_0 + n>> ELSE Digits(n \div 10) \o <<B_0 + (n % 10)>>

\* `{}` of an integer: minus sign and digits
RECURSIVE Undigits(_)
\* the number a sequence of decimal digits writes
Undigits(ds) ==
    IF ds = <<>> THEN 0 ELSE Undigits(SubSeq(ds, 1, Len(ds) - 1)) * 10 + (ds[Len(ds)] - B_0)

Display(n) == IF n < 0 THEN <<B_minus>> \o Digits(0 - n) ELSE Digits(n)

\* utils::write_integer / write_unsigned
write_integer(buf, int) == buf \o <<B_i>> \o Display(int) \o <<B_e>>

\* Serializer::serialize_bytes
write_bytes(buf, bytes) == buf \o Digits(Len(bytes)) \o <<B_colon>> \o bytes

----------------------------------------------------------------------------
(* Serializer { output, map_state }.  map_state is <<>> for None and       *)
(* <<MapState>> for Some.  st is "ok", "err" (an Err propagated by `?`)    *)
(* or "panic" (a failed assert!/expect).                                   *)

MapState_new == [ordered_pairs |-> <<>>, output |-> <<>>, current_key |-> <<>>]

Serializer_new == [output |-> <<>>, map_state |-> <<>>, st |-> "ok"]

Panic(s) == [s EXCEPT !.st = "panic"]
Fail(s) == [s EXCEPT !.st = "err"]

\* Vec<u8> ordering: unsigned byte-wise lexicographic, a proper prefix is smaller
LexLess(a, b) ==
    \E i \in 1..(Min(Len(a), Len(b)) + 1) :
        /\ \A j \in 1..(i - 1) : a[j] = b[j]
        /\ \/ i > Len(a) /\ i <= Len(b)
           \/ i <= Len(a) /\ i <= Len(b) /\ a[i] < b[i]

HasColon(key) == \E i \in 1..Len(key) : key[i] = B_colon

\* key.iter().position(|b| *b == b':')
ColonPos(key) == CHOOSE i \in 1..Len(key) :
                    key[i] = B_colon /\ \A j \in 1..(i - 1) : key[j] # B_colon

\* the closure of sort_by_cached_key: the bytes after the first ':'
SortKey(key) == SubSeq(key, ColonPos(key) + 1, Len(key))

RECURSIVE InsertSorted(_, _)
\* stable insertion: p goes after every element whose key is not greater
InsertSorted(p, sorted) ==
    IF sorted = <<>> THEN <<p>>
    ELSE IF LexLess(SortKey(p[1]), SortKey(Head(sorted)[1]))
         THEN <<p>> \o sorted
         ELSE <<Head(sorted)>> \o InsertSorted(p, Tail(sorted))

RECURSIVE SortPairs(_)
\* ordered_pairs.sort_by_cached_key(..): a stable sort
SortPairs(ps) ==
    IF ps = <<>> THEN <<>>
    ELSE InsertSorted(ps[Len(ps)], SortPairs(SubSeq(ps, 1, Len(ps) - 1)))

RECURSIVE ConcatPairs(_)
ConcatPairs(ps) ==
    IF ps = <<>> THEN <<>> ELSE Head(ps)[1] \o Head(ps)[2] \o ConcatPairs(Tail(ps))

\* write_dict_with_ordered_pairs on a MapState: the sort calls the closure on
\* every element when there are two or more (a slice shorter than 2 is
\* returned untouched), and the closure's expect panics on a key without ':'
SortPanics(ps) == Len(ps) >= 2 /\ \E i \in 1..Len(ps) : ~HasColon(ps[i][1])

write_dict_with_ordered_pairs(m) ==
    [m EXCEPT !.output = m.output \o <<B_d>>
                          \o ConcatPairs(IF Len(m.ordered_pairs) >= 2
                                         THEN SortPairs(m.ordered_pairs)
                                         ELSE m.ordered_pairs)
                          \o <<B_e>>,
              !.ordered_pairs = <<>>]

\* Serializer::serialize_map
serialize_map(s) ==
    IF s.map_state # <<>> THEN Panic(s)
    ELSE [s EXCEPT !.map_state = <<MapState_new>>]

\* SerializeMap::end / SerializeStruct::end
map_end(s) ==
    IF s.map_state = <<>> THEN Panic(s)
    ELSE IF SortPanics(s.map_state[1].ordered_pairs) THEN Panic(s)
    ELSE [s EXCEPT !.map_state = <<write_dict_with_ordered_pairs(s.map_state[1])>>]

\* SerializeStructVariant::end
struct_variant_end(s) ==
    IF s.map_state = <<>> THEN Panic(s)
    ELSE IF SortPanics(s.map_state[1].ordered_pairs) THEN Panic(s)
    ELSE LET m == write_dict_with_ordered_pairs(s.map_state[1])
         IN [s EXCEPT !.map_state = <<[m EXCEPT !.output = m.output \o <<B_e>>]>>]

RECURSIVE Serialize(_, _)
RECURSIVE serialize_key(_, _)
RECURSIVE serialize_value(_, _)
RECURSIVE serialize_field(_, _, _)
RECURSIVE SeqElements(_, _)
RECURSIVE TupleElements(_, _)
RECURSIVE MapEntries(_, _)
RECURSIVE StructFields(_, _)

\* a collection that records the pair of a value even when the value wrote
\* nothing
CollectValueKeepingEmpty(s0, s2, key) ==
    LET backup == s0.map_state[1]
        fromMap == s2.map_state # <<>>
        serialized_value == IF fromMap THEN s2.map_state[1].output ELSE s2.output
        output == IF fromMap THEN s2.output ELSE s0.output
        restored == [backup EXCEPT !.ordered_pairs =
                        Append(backup.ordered_pairs, <<key, serialized_value>>)]
    IN [output |-> output, map_state |-> <<restored>>, st |-> "ok"]

\* the tail of serialize_value and serialize_field: where the bytes of the
\* value are taken from, the restore of the saved frame and the push.
\* s0 is the serializer before the value was serialized, s2 after it,
\* key the encoded key to file the value under.
CollectValue(s0, s2, key) ==
    LET backup == s0.map_state[1]
        fromMap == s2.map_state # <<>>
        serialized_value == IF fromMap THEN s2.map_state[1].output ELSE s2.output
        output == IF fromMap THEN s2.output ELSE s0.output
        restored == IF serialized_value = <<>> THEN backup
                    ELSE [backup EXCEPT !.ordered_pairs =
                              Append(backup.ordered_pairs, <<key, serialized_value>>)]
    IN [output |-> output, map_state |-> <<restored>>, st |-> "ok"]

\* SerializeMap::serialize_key
serialize_key(key, s) ==
    IF s.map_state = <<>> THEN Panic(s)
    ELSE LET s1 == [s EXCEPT !.output = <<>>,
                             !.map_state = <<[s.map_state[1] EXCEPT !.current_key = s.output]>>]
             s2 == Serialize(key, s1)
         IN IF s2.st # "ok" THEN s2
            ELSE IF s2.map_state = <<>> THEN Panic(s2)
            ELSE [s2 EXCEPT !.output = s2.map_state[1].current_key,
                            !.map_state = <<[s2.map_state[1] EXCEPT !.current_key = s2.output]>>]

\* SerializeMap::serialize_value
serialize_value(value, s) ==
    IF s.map_state = <<>> THEN Panic(s)
    ELSE LET s1 == [s EXCEPT !.output = <<>>, !.map_state = <<>>]
             s2 == Serialize(value, s1)
         IN IF s2.st # "ok" THEN s2
            ELSE CollectValue(s, s2, s.map_state[1].current_key)

\* SerializeStruct::serialize_field (SerializeStructVariant delegates to it)
serialize_field(key, value, s) ==
    IF s.map_state = <<>> THEN Panic(s)
    ELSE LET serialized_key == write_bytes(<<>>, key)
             s1 == [s EXCEPT !.output = <<>>, !.map_state = <<>>]
             s2 == Serialize(value, s1)
         IN IF s2.st # "ok" THEN s2
            ELSE CollectValue(s, s2, serialized_key)

\* SerializeSeq::serialize_element, for each element in order
SeqElements(xs, s) ==
    IF xs = <<>> \/ s.st # "ok" THEN s
    ELSE LET s2 == Serialize(Head(xs), s)
             s3 == IF s2.st = "ok" /\ s2.map_state # <<>>
                   THEN [s2 EXCEPT !.output = s2.output \o s2.map_state[1].output,
                                   !.map_state = <<>>]
                   ELSE s2
         IN SeqElements(Tail(xs), s3)

\* SerializeTuple / SerializeTupleStruct / SerializeTupleVariant ::
\* serialize_element / serialize_field, for each element in order
TupleElements(xs, s) ==
    IF xs = <<>> \/ s.st # "ok" THEN s
    ELSE TupleElements(Tail(xs), Serialize(Head(xs), s))

\* the entries of a map, as serde's Serialize for maps drives them:
\* serialize_entry is serialize_key then serialize_value
MapEntries(ps, s) ==
    IF ps = <<>> \/ s.st # "ok" THEN s
    ELSE LET s2 == serialize_key(Head(ps)[1], s)
             s3 == IF s2.st = "ok" THEN serialize_value(Head(ps)[2], s2) ELSE s2
         IN MapEntries(Tail(ps), s3)

\* the fields of a derived struct, in declaration order
StructFields(fs, s) ==
    IF fs = <<>> \/ s.st # "ok" THEN s
    ELSE StructFields(Tail(fs), serialize_field(Head(fs)[1], Head(fs)[2], s))

\* impl ser::Serializer for &mut Serializer, driven by the value's Serialize
Serialize(v, s) ==
    IF s.st # "ok" THEN s
    ELSE CASE v[1] = "int" -> [s EXCEPT !.output = write_integer(s.output, v[2])]
           [] v[1] = "bool" -> [s EXCEPT !.output = write_integer(s.output, IF v[2] THEN 1 ELSE 0)]
           [] v[1] = "f64" -> Fail(s)
           [] v[1] = "str" -> [s EXCEPT !.output = write_bytes(s.output, v[2])]
           [] v[1] = "bytes" -> [s EXCEPT !.output = write_bytes(s.output, v[2])]
           [] v[1] = "none" -> s
           [] v[1] = "some" -> Serialize(v[2], s)
           [] v[1] = "unit_variant" -> [s EXCEPT !.output = write_bytes(s.output, v[2])]
           [] v[1] = "newtype_variant" ->
                LET s1 == serialize_map(s)
                    s2 == IF s1.st = "ok" THEN serialize_key(<<"str", v[2]>>, s1) ELSE s1
                    s3 == IF s2.st = "ok" THEN serialize_value(v[3], s2) ELSE s2
                IN IF s3.st = "ok" THEN map_end(s3) ELSE s3
           [] v[1] = "seq" ->
                LET s1 == SeqElements(v[2], [s EXCEPT !.output = s.output \o <<B_l>>])
                IN IF s1.st = "ok" THEN [s1 EXCEPT !.output = s1.output \o <<B_e>>] ELSE s1
           [] v[1] = "tuple" ->
                LET s1 == TupleElements(v[2], [s EXCEPT !.output = s.output \o <<B_l>>])
                IN IF s1.st = "ok" THEN [s1 EXCEPT !.output = s1.output \o <<B_e>>] ELSE s1
           [] v[1] = "tuple_variant" ->
                LET s0 == [s EXCEPT !.output = write_bytes(s.output \o <<B_d>>, v[2]) \o <<B_l>>]
                    s1 == TupleElements(v[3], s0)
                IN IF s1.st = "ok" THEN [s1 EXCEPT !.output = s1.output \o <<B_e, B_e>>] ELSE s1
           [] v[1] = "map" ->
                LET s1 == serialize_map(s)
                    s2 == MapEntries(v[2], s1)
                IN IF s2.st = "ok" THEN map_end(s2) ELSE s2
           [] v[1] = "struct" ->
                LET s1 == serialize_map(s)
                    s2 == StructFields(v[2], s1)
                IN IF s2.st = "ok" THEN map_end(s2) ELSE s2
           [] v[1] = "struct_variant" ->
                LET s0 == [s EXCEPT !.output = write_bytes(s.output \o <<B_d>>, v[2])]
                    s1 == serialize_map(s0)
                    s2 == StructFields(v[3], s1)
                IN IF s2.st = "ok" THEN struct_variant_end(s2) ELSE s2

\* ser::to_bytes: [st, out]
to_bytes(value) ==
    LET s == Serialize(value, Serializer_new)
    IN IF s.st # "ok" THEN [st |-> s.st, out |-> <<>>]
       ELSE [st |-> "ok",
             out |-> IF s.map_state # <<>> THEN s.output \o s.map_state[1].output
                     ELSE s.output]

----------------------------------------------------------------------------
(* Deserializer { input }.  A step returns [st, err, val, rest]: st is     *)
(* "ok", "err" (err names the Error variant; "Message" is a serde custom   *)
(* error such as missing field) or "panic" (arithmetic overflow with       *)
(* overflow checks on).  oc, the last parameter of every step, says        *)
(* whether the build has overflow checks (debug) or wraps (release).       *)
(* A schema is a tuple naming the Rust type:                               *)
(*   <<"bool">> <<"uint", w>> <<"sint", w>> <<"string">> <<"bytes">>       *)
(*   <<"option", T>> <<"seq", T>> <<"tuple", Ts>> <<"map", K, V>>          *)
(*   <<"struct", <<<<name, T>>, ...>>>>  <<"ignored">>                     *)
(*   <<"enum", <<<<name, "unit">>, <<name, "newtype", T>>,                 *)
(*               <<name, "tuple", Ts>>, <<name, "struct", fields>>>>>>     *)

Ok(v, rest) == [st |-> "ok", err |-> "", val |-> v, rest |-> rest]
Err(kind) == [st |-> "err", err |-> kind, val |-> <<>>, rest |-> <<>>]
Abort == [st |-> "panic", err |-> "", val |-> <<>>, rest |-> <<>>]

\* Values of the model stay below 2^31; a 64-bit accumulator cannot overflow
\* on them, a narrow one can.
Pow2(w) == 2 ^ w
OverflowsU(x, w) == w < 31 /\ x >= Pow2(w)
OverflowsS(x, w) == w < 31 /\ (x >= Pow2(w - 1) \/ x < 0 - Pow2(w - 1))
WrapU(x, w) == IF w < 31 THEN x % Pow2(w) ELSE x
WrapS(x, w) == IF w < 31 THEN ((x + Pow2(w - 1)) % Pow2(w)) - Pow2(w - 1) ELSE x

\* str::from_utf8(..).is_ok(): over the bytes of the model (ASCII and 0xFF,
\* which no UTF-8 sequence contains) a string is valid iff it is all ASCII
IsUtf8(bytes) == \A i \in 1..Len(bytes) : bytes[i] < 128

RECURSIVE UnsignedLoop(_, _, _, _)
\* the loop of parse_unsigned: `int *= 10; int += digit` while a digit is next
UnsignedLoop(int, input, w, oc) ==
    IF input # <<>> /\ IsDigit(Head(input))
    THEN LET m == int * 10
             a == WrapU(m, w) + (Head(input) - B_0)
         IN IF (OverflowsU(m, w) \/ OverflowsU(a, w)) /\ oc THEN Abort
            ELSE UnsignedLoop(WrapU(a, w), Tail(input), w, oc)
    ELSE Ok(int, input)

\* Deserializer::parse_unsigned::<uW>
parse_unsigned(input, w, oc) ==
    IF input = <<>> THEN Err("Eof")
    ELSE IF ~IsDigit(Head(input)) THEN Err("ExpectedInteger")
    ELSE UnsignedLoop(Head(input) - B_0, Tail(input), w, oc)

RECURSIVE SignedLoop(_, _, _, _, _)
\* the loop of parse_signed, and the negation at its end
SignedLoop(int, input, w, is_negative, oc) ==
    IF input # <<>> /\ IsDigit(Head(input))
    THEN LET m == int * 10
             a == WrapS(m, w) + (Head(input) - B_0)
         IN IF (OverflowsS(m, w) \/ OverflowsS(a, w)) /\ oc THEN Abort
            ELSE SignedLoop(WrapS(a, w), Tail(input), w, is_negative, oc)
    ELSE IF ~is_negative THEN Ok(int, input)
    ELSE IF OverflowsS(0 - int, w) /\ oc THEN Abort
    ELSE Ok(WrapS(0 - int, w), input)

\* Deserializer::parse_signed::<iW>
parse_signed(input, w, oc) ==
    IF input = <<>> THEN Err("Eof")
    ELSE LET is_negative == Head(input) = B_minus
             in1 == IF is_negative THEN Tail(input) ELSE input
         IN IF in1 = <<>> THEN Err("Eof")
            ELSE IF ~IsDigit(Head(in1)) THEN Err("ExpectedInteger")
            ELSE SignedLoop(Head(in1) - B_0, Tail(in1), w, is_negative, oc)

\* the `i` .. `e` frame shared by parse_bencoding_num_unsigned / _signed
NumFrame(input, num) ==
    IF num.st # "ok" THEN num
    ELSE IF num.rest = <<>> THEN Err("Eof")
    ELSE IF Head(num.rest) = B_e THEN Ok(num.val, Tail(num.rest))
    ELSE Err("ExpectedIntegerEnd")

\* Deserializer::parse_bencoding_num_unsigned
parse_bencoding_num_unsigned(input, w, oc) ==
    IF input = <<>> THEN Err("Eof")
    ELSE IF Head(input) = B_i THEN NumFrame(input, parse_unsigned(Tail(input), w, oc))
    ELSE Err("ExpectedInteger")

\* Deserializer::parse_bencoding_num_signed
parse_bencoding_num_signed(input, w, oc) ==
    IF input = <<>> THEN Err("Eof")
    ELSE IF Head(input) = B_i THEN NumFrame(input, parse_signed(Tail(input), w, oc))
    ELSE Err("ExpectedInteger")

USIZE_BITS == 64

\* the `?` operator: an error or abort of r is returned at once, otherwise
\* the rest of the function runs on r
AndThen(r, F(_)) == IF r.st # "ok" THEN r ELSE F(r)

\* Deserializer::parse_byte_string
parse_byte_string(input, oc) ==
    AndThen(parse_unsigned(input, USIZE_BITS, oc), LAMBDA len :
        IF len.rest = <<>> THEN Err("Eof")
        ELSE IF Head(len.rest) # B_colon THEN Err("ExpectedByteString")
        ELSE LET body == Tail(len.rest)
             IN IF Len(body) < len.val THEN Err("Eof")
                ELSE Ok(SubSeq(body, 1, len.val), SubSeq(body, len.val + 1, Len(body))))

\* Deserializer::parse_string, and deserialize_str before it visits
parse_string(input, oc) ==
    AndThen(parse_byte_string(input, oc), LAMBDA bs :
        IF IsUtf8(bs.val) THEN bs ELSE Err("ExpectedString"))

RECURSIVE Deserialize(_, _, _)
RECURSIVE VecVisitor(_, _, _, _)
RECURSIVE TupleVisitor(_, _, _, _)
RECURSIVE MapVisitor(_, _, _, _, _)
RECURSIVE StructVisitor(_, _, _, _)
RECURSIVE IgnoredSeq(_, _)
RECURSIVE IgnoredMap(_, _)

\* the index of the field (or variant) called name, 0 when there is none:
\* the derived __FieldVisitor::visit_str
FieldIndex(fields, name) ==
    IF \E i \in 1..Len(fields) : fields[i][1] = name
    THEN CHOOSE i \in 1..Len(fields) : fields[i][1] = name
    ELSE 0

\* HashMap::insert on the pairs collected so far: a key already there keeps
\* its place and takes the new value
MapInsert(pairs, k, v) ==
    IF \E i \in 1..Len(pairs) : pairs[i][1] = k
    THEN [i \in 1..Len(pairs) |-> IF pairs[i][1] = k THEN <<k, v>> ELSE pairs[i]]
    ELSE Append(pairs, <<k, v>>)

\* a deserialize_seq that takes the end of the input for the end of the list
SeqCloseAtEndOfInput(r) ==
    IF r.st # "ok" THEN r
    ELSE IF r.rest = <<>> THEN Ok(r.val, <<>>)
    ELSE IF Head(r.rest) = B_e THEN Ok(r.val, Tail(r.rest))
    ELSE Err("ExpectedArrayEnd")

\* deserialize_seq around a visitor's result: the closing `e`
SeqClose(r) ==
    IF r.st # "ok" THEN r
    ELSE IF r.rest = <<>> THEN Err("Eof")
    ELSE IF Head(r.rest) = B_e THEN Ok(r.val, Tail(r.rest))
    ELSE Err("ExpectedArrayEnd")

\* deserialize_map (and deserialize_enum) around a visitor's result
MapClose(r) ==
    IF r.st # "ok" THEN r
    ELSE IF r.rest = <<>> THEN Err("Eof")
    ELSE IF Head(r.rest) = B_e THEN Ok(r.val, Tail(r.rest))
    ELSE Err("ExpectedMapEnd")

\* Vec<T>'s visitor over SeqAccess::next_element_seed
VecVisitor(T, input, acc, oc) ==
    IF input = <<>> THEN Err("Eof")
    ELSE IF Head(input) = B_e THEN Ok(acc, input)
    ELSE AndThen(Deserialize(T, input, oc), LAMBDA r :
             VecVisitor(T, r.rest, Append(acc, r.val), oc))

\* the visitor of a tuple or of a tuple variant: one next_element per
\* position, invalid_length when the list ends early
TupleVisitor(Ts, input, acc, oc) ==
    IF Ts = <<>> THEN Ok(acc, input)
    ELSE IF input = <<>> THEN Err("Eof")
    ELSE IF Head(input) = B_e THEN Err("Message")
    ELSE AndThen(Deserialize(Head(Ts), input, oc), LAMBDA r :
             TupleVisitor(Tail(Ts), r.rest, Append(acc, r.val), oc))

\* HashMap<K, V>'s visitor over MapAccess::next_key_seed / next_value_seed
MapVisitor(K, V, input, acc, oc) ==
    IF input = <<>> THEN Err("Eof")
    ELSE IF Head(input) = B_e THEN Ok(acc, input)
    ELSE IF ~IsDigit(Head(input)) THEN Err("ExpectedString")
    ELSE AndThen(Deserialize(K, input, oc), LAMBDA k :
         AndThen(Deserialize(V, k.rest, oc), LAMBDA v :
             MapVisitor(K, V, v.rest, MapInsert(acc, k.val, v.val), oc)))

\* what the derived visitor builds at the end of the dictionary: a field
\* never seen is None for an Option and an error (missing_field) otherwise
StructFinish(fields, found, rest) ==
    IF \E i \in 1..Len(fields) : found[i] = <<>> /\ fields[i][2][1] # "option"
    THEN Err("Message")
    ELSE Ok([i \in 1..Len(fields) |->
                <<fields[i][1], IF found[i] = <<>> THEN <<"none">> ELSE found[i][1]>>],
            rest)

\* the visit_map of a derived struct over MapAccess for Values
StructVisitor(fields, input, found, oc) ==
    IF input = <<>> THEN Err("Eof")
    ELSE IF Head(input) = B_e THEN StructFinish(fields, found, input)
    ELSE IF ~IsDigit(Head(input)) THEN Err("ExpectedString")
    ELSE AndThen(parse_string(input, oc), LAMBDA k :
         LET i == FieldIndex(fields, k.val)
         IN IF i = 0
            THEN AndThen(Deserialize(<<"ignored">>, k.rest, oc), LAMBDA v :
                     StructVisitor(fields, v.rest, found, oc))
            ELSE IF found[i] # <<>> THEN Err("Message")
            ELSE AndThen(Deserialize(fields[i][2], k.rest, oc), LAMBDA v :
                     StructVisitor(fields, v.rest, [found EXCEPT ![i] = <<v.val>>], oc)))

\* IgnoredAny::visit_seq
IgnoredSeq(input, oc) ==
    IF input = <<>> THEN Err("Eof")
    ELSE IF Head(input) = B_e THEN Ok(<<"ignored">>, input)
    ELSE AndThen(Deserialize(<<"ignored">>, input, oc), LAMBDA r :
             IgnoredSeq(r.rest, oc))

\* IgnoredAny::visit_map
IgnoredMap(input, oc) ==
    IF input = <<>> THEN Err("Eof")
    ELSE IF Head(input) = B_e THEN Ok(<<"ignored">>, input)
    ELSE IF ~IsDigit(Head(input)) THEN Err("ExpectedString")
    ELSE AndThen(Deserialize(<<"ignored">>, input, oc), LAMBDA k :
         AndThen(Deserialize(<<"ignored">>, k.rest, oc), LAMBDA v :
             IgnoredMap(v.rest, oc)))

\* a visited value that IgnoredAny drops
Ignore(r) == Ok(<<"ignored">>, r.rest)

\* deserialize_any, as deserialize_ignored_any calls it with IgnoredAny
deserialize_any(input, oc) ==
    IF input = <<>> THEN Err("Eof")
    ELSE CASE IsDigit(Head(input)) -> AndThen(parse_string(input, oc), Ignore)
           [] Head(input) = B_i ->
                IF Len(input) < 2 THEN Err("Eof")
                ELSE IF input[2] = B_minus
                THEN AndThen(parse_bencoding_num_signed(input, 64, oc), Ignore)
                ELSE AndThen(parse_bencoding_num_unsigned(input, 64, oc), Ignore)
           [] Head(input) = B_l -> SeqClose(IgnoredSeq(Tail(input), oc))
           [] Head(input) = B_d -> MapClose(IgnoredMap(Tail(input), oc))
           [] OTHER -> Err("Syntax")

\* Enum's VariantAccess, after variant_seed has read the name: the payload
\* by the variant's kind
VariantPayload(variant, input, oc) ==
    CASE variant[2] = "unit" -> Err("ExpectedString")
      [] variant[2] = "newtype" ->
            AndThen(Deserialize(variant[3], input, oc), LAMBDA r :
                Ok(<<"newtype_variant", variant[1], r.val>>, r.rest))
      [] variant[2] = "tuple" ->
            IF input = <<>> THEN Err("Eof")
            ELSE IF Head(input) # B_l THEN Err("ExpectedList")
            ELSE AndThen(SeqClose(TupleVisitor(variant[3], Tail(input), <<>>, oc)),
                         LAMBDA r : Ok(<<"tuple_variant", variant[1], r.val>>, r.rest))
      [] variant[2] = "struct" ->
            IF input = <<>> THEN Err("Eof")
            ELSE IF Head(input) # B_d THEN Err("ExpectedMap")
            ELSE AndThen(MapClose(StructVisitor(variant[3], Tail(input),
                                                [i \in 1..Len(variant[3]) |-> <<>>], oc)),
                         LAMBDA r : Ok(<<"struct_variant", variant[1], r.val>>, r.rest))

\* Deserializer::deserialize_enum with the derived enum visitor
deserialize_enum(variants, input, oc) ==
    IF input = <<>> THEN Err("Eof")
    ELSE IF IsDigit(Head(input))
    THEN AndThen(parse_string(input, oc), LAMBDA n :
             LET i == FieldIndex(variants, n.val)
             IN IF i = 0 \/ variants[i][2] # "unit" THEN Err("Message")
                ELSE Ok(<<"unit_variant", n.val>>, n.rest))
    ELSE IF Head(input) = B_d
    THEN AndThen(parse_string(Tail(input), oc), LAMBDA n :
             LET i == FieldIndex(variants, n.val)
             IN IF i = 0 THEN Err("Message")
                ELSE MapClose(VariantPayload(variants[i], n.rest, oc)))
    ELSE Err("ExpectedEnum")

\* impl de::Deserializer for &mut Deserializer, driven by the Deserialize of T
Deserialize(T, input, oc) ==
    CASE T[1] = "bool" ->
            AndThen(parse_bencoding_num_unsigned(input, 32, oc), LAMBDA r :
                Ok(<<"bool", r.val # 0>>, r.rest))
      [] T[1] = "uint" ->
            AndThen(parse_bencoding_num_unsigned(input, T[2], oc), LAMBDA r :
                Ok(<<"int", r.val>>, r.rest))
      [] T[1] = "sint" ->
            AndThen(parse_bencoding_num_signed(input, T[2], oc), LAMBDA r :
                Ok(<<"int", r.val>>, r.rest))
      [] T[1] = "string" ->
            AndThen(parse_string(input, oc), LAMBDA r : Ok(<<"str", r.val>>, r.rest))
      [] T[1] = "bytes" ->
            AndThen(parse_byte_string(input, oc), LAMBDA r : Ok(<<"bytes", r.val>>, r.rest))
      [] T[1] = "option" ->
            AndThen(Deserialize(T[2], input, oc), LAMBDA r : Ok(<<"some", r.val>>, r.rest))
      [] T[1] = "seq" ->
            IF input = <<>> THEN Err("Eof")
            ELSE IF Head(input) # B_l THEN Err("ExpectedList")
            ELSE AndThen(SeqClose(VecVisitor(T[2], Tail(input), <<>>, oc)),
                         LAMBDA r : Ok(<<"seq", r.val>>, r.rest))
      [] T[1] = "tuple" ->
            IF input = <<>> THEN Err("Eof")
            ELSE IF Head(input) # B_l THEN Err("ExpectedList")
            ELSE AndThen(SeqClose(TupleVisitor(T[2], Tail(input), <<>>, oc)),
                         LAMBDA r : Ok(<<"tuple", r.val>>, r.rest))
      [] T[1] = "map" ->
            IF input = <<>> THEN Err("Eof")
            ELSE IF Head(input) # B_d THEN Err("ExpectedMap")
            ELSE AndThen(MapClose(MapVisitor(T[2], T[3], Tail(input), <<>>, oc)),
                         LAMBDA r : Ok(<<"map", r.val>>, r.rest))
      [] T[1] = "struct" ->
            IF input = <<>> THEN Err("Eof")
            ELSE IF Head(input) # B_d THEN Err("ExpectedMap")
            ELSE AndThen(MapClose(StructVisitor(T[2], Tail(input),
                                                [i \in 1..Len(T[2]) |-> <<>>], oc)),
                         LAMBDA r : Ok(<<"struct", r.val>>, r.rest))
      [] T[1] = "enum" -> deserialize_enum(T[2], input, oc)
      [] T[1] = "ignored" -> deserialize_any(input, oc)

\* de::from_bytes::<T>
from_bytes(T, s, oc) ==
    AndThen(Deserialize(T, s, oc), LAMBDA t :
        IF t.rest = <<>> THEN t ELSE Err("TrailingCharacters"))

----------------------------------------------------------------------------
(* The codec jobs: a schema and a value of it, or a schema and raw bytes.  *)

MaxSeqLen == 2      \* longest list of a job
MaxMapLen == 3      \* most entries of a map of a job

K_a == <<97>>
K_b == <<98>>
K_c == <<99>>
K_i == <<105>>
K_l == <<108>>
K_n == <<110>>
K_p == <<112>>
K_s == <<115>>
K_t == <<116>>
K_u == <<117>>
K_x == <<120>>
K_y == <<121>>
K_ab == <<97, 98>>
K_int == <<105, 110, 116>>

U16 == <<"uint", 16>>
T_Str == <<"string">>

Ints == {0, 7, 300}
Strs == {<<>>, K_a, <<101, 58>>}
ByteBufs == {<<>>, <<255>>, <<58, 101, 0>>}

IntVals == {<<"int", n>> : n \in Ints}
StrVals == {<<"str", b>> : b \in Strs}

Opt(S) == {<<"none">>} \cup {<<"some", x>> : x \in S}

SeqsUpTo(S, n) == UNION {[1..k -> S] : k \in 0..n}

\* sequences without a repeated key: the iteration orders of a map
MapOrders(Keys, Vals, n) ==
    {ps \in SeqsUpTo(Keys \X Vals, n) :
        \A i, j \in 1..Len(ps) : i # j => ps[i][1] # ps[j][1]}

\* enum E { u, n(u16), t(u16, u16), s { a: u16 } }
T_E == <<"enum", << <<K_u, "unit">>, <<K_n, "newtype", U16>>,
                    <<K_t, "tuple", <<U16, U16>>>>,
                    <<K_s, "struct", << <<K_a, U16>> >> >> >> >>
EVals ==
    {<<"unit_variant", K_u>>}
    \cup {<<"newtype_variant", K_n, x>> : x \in IntVals}
    \cup {<<"tuple_variant", K_t, <<x, <<"int", 7>>>>>> : x \in IntVals}
    \cup {<<"struct_variant", K_s, << <<K_a, x>> >>>> : x \in IntVals}

\* struct N { a: u16 }
T_N == <<"struct", << <<K_a, U16>> >> >>
NVals == {<<"struct", << <<K_a, x>> >>>> : x \in IntVals}

\* struct { b: u16, a: String }: declared out of key order
T_Flat == <<"struct", << <<K_b, U16>>, <<K_a, T_Str>> >> >>
J_Flat == {<<T_Flat, <<"struct", << <<K_b, x>>, <<K_a, y>> >>>>>> :
              x \in IntVals, y \in StrVals}

\* struct { c: Option<u16>, a: Option<String>, b: u16 }
T_Opt == <<"struct", << <<K_c, <<"option", U16>>>>, <<K_a, <<"option", T_Str>>>>,
                        <<K_b, U16>> >> >>
J_Opt == {<<T_Opt, <<"struct", << <<K_c, x>>, <<K_a, y>>, <<K_b, <<"int", 7>>>> >>>>>> :
              x \in Opt(IntVals), y \in Opt(StrVals)}

\* struct { s: String, n: struct { y: Option<u16>, x: u16 } }
T_Nested == <<"struct", << <<K_s, T_Str>>,
                           <<K_n, <<"struct", << <<K_y, <<"option", U16>>>>,
                                                 <<K_x, U16>> >> >> >> >> >>
J_Nested == {<<T_Nested,
               <<"struct", << <<K_s, <<"str", K_a>>>>,
                              <<K_n, <<"struct", << <<K_y, y>>, <<K_x, x>> >>>>>> >>>>>> :
                 x \in IntVals, y \in Opt(IntVals)}

\* struct { l: Vec<String>, i: u16 }
T_List == <<"struct", << <<K_l, <<"seq", T_Str>>>>, <<K_i, U16>> >> >>
J_List == {<<T_List, <<"struct", << <<K_l, <<"seq", l>>>>, <<K_i, <<"int", 0>>>> >>>>>> :
              l \in SeqsUpTo({<<"str", K_a>>, <<"str", <<>>>>}, MaxSeqLen)}

\* struct { p: ByteBuf }
T_Bytes == <<"struct", << <<K_p, <<"bytes">>>> >> >>
J_Bytes == {<<T_Bytes, <<"struct", << <<K_p, <<"bytes", b>>>> >>>>>> : b \in ByteBufs}

\* Vec<N>
J_SeqRec == {<<<<"seq", T_N>>, <<"seq", l>>>> : l \in SeqsUpTo(NVals, MaxSeqLen)}

\* Vec<struct { n: N }>
T_Wrap == <<"struct", << <<K_n, T_N>> >> >>
WrapVals == {<<"struct", << <<K_n, x>> >>>> : x \in NVals}
J_SeqNested == {<<<<"seq", T_Wrap>>, <<"seq", l>>>> : l \in SeqsUpTo(WrapVals, MaxSeqLen)}

\* (N,) and (N, N)
J_TupleRec ==
    {<<<<"tuple", <<T_N>>>>, <<"tuple", <<x>>>>>> : x \in NVals}
    \cup {<<<<"tuple", <<T_N, T_N>>>>, <<"tuple", <<x, y>>>>>> : x \in NVals, y \in NVals}

\* HashMap<String, u16>, in every iteration order
J_Map == {<<<<"map", T_Str, U16>>, <<"map", ps>>>> :
             ps \in MapOrders({<<"str", K_a>>, <<"str", K_b>>, <<"str", K_ab>>},
                              {<<"int", 7>>}, MaxMapLen)}

\* HashMap<String, Option<u16>>
J_MapOpt == {<<<<"map", T_Str, <<"option", U16>>>>, <<"map", ps>>>> :
                ps \in MapOrders({<<"str", K_a>>, <<"str", K_b>>},
                                 Opt({<<"int", 7>>}), 2)}

\* HashMap<u16, u16>
J_MapIntKey == {<<<<"map", U16, U16>>, <<"map", ps>>>> :
                   ps \in MapOrders({<<"int", 0>>, <<"int", 7>>}, {<<"int", 7>>}, 2)}

\* Vec<HashMap<String, u16>>
SmallMaps == {<<"map", ps>> : ps \in MapOrders({<<"str", K_a>>, <<"str", K_b>>},
                                               {<<"int", 7>>}, 2)}
J_SeqMap == {<<<<"seq", <<"map", T_Str, U16>>>>, <<"seq", l>>>> :
                l \in SeqsUpTo(SmallMaps, MaxSeqLen)}

\* enum { t(N), p(N, N) }: tuple variants whose elements are records
T_TupleVarRec == <<"enum", << <<K_t, "tuple", <<T_N>>>>, <<K_p, "tuple", <<T_N, T_N>>>> >> >>
J_TupleVarRec ==
    {<<T_TupleVarRec, <<"tuple_variant", K_t, <<x>>>>>> : x \in NVals}
    \cup {<<T_TupleVarRec, <<"tuple_variant", K_p, <<x, y>>>>>> : x \in NVals, y \in NVals}

\* the ends of the range of i8, u8, i16 and u16, and values inside it
IntEnds ==
    { <<<<"sint", 8>>, 0 - 128>>, <<<<"sint", 8>>, 0 - 127>>, <<<<"sint", 8>>, 127>>,
      <<<<"sint", 8>>, 0>>, <<<<"uint", 8>>, 255>>, <<<<"uint", 8>>, 0>>,
      <<<<"sint", 16>>, 0 - 32768>>, <<<<"sint", 16>>, 32767>>,
      <<<<"sint", 16>>, 0 - 1>>, <<<<"uint", 16>>, 65535>> }
J_IntEnds == {<<t[1], <<"int", t[2]>>>> : t \in IntEnds}

\* E at the top level
J_Enum == {<<T_E, e>> : e \in EVals}

\* struct { a: E, b: u16 }
T_RecEnum == <<"struct", << <<K_a, T_E>>, <<K_b, U16>> >> >>
J_RecEnum == {<<T_RecEnum, <<"struct", << <<K_a, e>>, <<K_b, <<"int", 7>>>> >>>>>> :
                 e \in EVals}

\* enum { s { a: N } }: a field of a record variant is itself a record
T_VarRec == <<"enum", << <<K_s, "struct", << <<K_a, T_N>> >> >> >> >>
J_VarRec == {<<T_VarRec, <<"struct_variant", K_s, << <<K_a, x>> >>>>>> : x \in NVals}

\* struct { x: f64 }
J_Float == {<<<<"struct", << <<K_x, <<"f64">>>> >>>>,
              <<"struct", << <<K_x, <<"f64">>>> >>>>>>}

ValueJobs ==
    J_Flat \cup J_Opt \cup J_Nested \cup J_List \cup J_Bytes \cup J_SeqRec
    \cup J_SeqNested \cup J_TupleRec \cup J_Map \cup J_MapOpt \cup J_MapIntKey
    \cup J_Enum \cup J_RecEnum \cup J_VarRec \cup J_Float
    \cup J_SeqMap \cup J_TupleVarRec \cup J_IntEnds

\* a byte appended after a complete encoding
ExtraBytes == {B_e, B_0, B_i, 0}

\* an integer token and whether its value fits the requested type
\* <<type, digits after `i`, fits>>
IntTokens ==
    { <<<<"uint", 8>>, <<51, 48, 48>>, FALSE>>,                       \* i300e
      <<<<"uint", 8>>, <<50, 53, 53>>, TRUE>>,                        \* i255e
      <<<<"uint", 8>>, <<50, 53, 54>>, FALSE>>,                       \* i256e
      <<<<"uint", 8>>, [i \in 1..19 |-> B_9], FALSE>>,                \* i9999999999999999999e
      <<<<"uint", 16>>, [i \in 1..19 |-> B_9], FALSE>>,
      <<<<"uint", 16>>, <<54, 53, 53, 51, 53>>, TRUE>>,               \* i65535e
      <<<<"uint", 16>>, <<54, 53, 53, 51, 54>>, FALSE>>,              \* i65536e
      <<<<"sint", 8>>, <<49, 50, 55>>, TRUE>>,                        \* i127e
      <<<<"sint", 8>>, <<49, 50, 56>>, FALSE>>,                       \* i128e
      <<<<"sint", 8>>, <<45, 49, 50, 57>>, FALSE>>,                   \* i-129e
      <<<<"sint", 8>>, <<45, 49, 50, 55>>, TRUE>>,                    \* i-127e
      <<<<"sint", 16>>, <<52, 48, 48, 48, 48>>, FALSE>> }             \* i40000e
J_IntRange == {<<t[1], <<"raw", "int_range", t[3]>>, <<B_i>> \o t[2] \o <<B_e>>>> :
                  t \in IntTokens}

\* well-formed values of every shape, as the value of a key the schema
\* does not know
UnknownValues ==
    { <<B_i, 53, B_e>>,                                  \* i5e
      <<B_i, B_minus, 51, B_e>>,                         \* i-3e
      <<B_0, B_colon>>,                                  \* 0:
      <<50, B_colon, 97, 98>>,                           \* 2:ab
      <<49, B_colon, 255>>,                              \* 1:\xff
      <<B_l, B_e>>,                                      \* le
      <<B_l, B_i, 49, B_e, 49, B_colon, 97, B_e>>,       \* li1e1:ae
      <<B_l, B_l, B_e, B_d, B_e, B_e>>,                  \* lledee
      <<B_d, B_e>>,                                      \* de
      <<B_d, 49, B_colon, 97, B_l, B_i, B_minus, 51, B_e, B_e, B_e>>,  \* d1:ali-3eee
      <<B_d, 49, B_colon, 97, 49, B_colon, 255, B_e>> }  \* d1:a1:\xffe

\* struct { int: u16 } decoded from d3:inti<n>e 1:x <unknown value> e
T_Int == <<"struct", << <<K_int, U16>> >> >>
J_Unknown ==
    {<<T_Int, <<"raw", "unknown_key", <<"struct", << <<K_int, <<"int", n>>>> >>>>>>,
       <<B_d>> \o write_bytes(<<>>, K_int) \o write_integer(<<>>, n)
              \o write_bytes(<<>>, K_x) \o u \o <<B_e>>>> :
        n \in {1, 7}, u \in UnknownValues}

(* model.rs: the names of InfoDict's and FileInfo's fields, and the info    *)
(* dictionaries of a single-file and of a multi-file torrent               *)
N_files == <<102, 105, 108, 101, 115>>
N_length == <<108, 101, 110, 103, 116, 104>>
N_md5sum == <<109, 100, 53, 115, 117, 109>>
N_name == <<110, 97, 109, 101>>
N_path == <<112, 97, 116, 104>>
N_piece_length == <<112, 105, 101, 99, 101, 32, 108, 101, 110, 103, 116, 104>>
N_pieces == <<112, 105, 101, 99, 101, 115>>
N_private == <<112, 114, 105, 118, 97, 116, 101>>

FileInfo(length, md5sum, path) ==
    <<"struct", << <<N_length, <<"int", length>>>>, <<N_md5sum, <<"str", md5sum>>>>,
                   <<N_path, <<"seq", path>>>> >> >>

InfoDict(files, length, md5sum, name, piece_length, pieces, private) ==
    <<"struct", << <<N_files, files>>, <<N_length, length>>, <<N_md5sum, md5sum>>,
                   <<N_name, <<"str", name>>>>,
                   <<N_piece_length, <<"int", piece_length>>>>,
                   <<N_pieces, <<"bytes", pieces>>>>, <<N_private, private>> >> >>

InfoDicts ==
    {InfoDict(<<"none">>, <<"some", <<"int", 5>>>>, <<"none">>, K_a, 4, <<255, 1>>,
              <<"none">>),
     InfoDict(<<"some", <<"seq", <<FileInfo(5, K_x, << <<"str", K_p>> >>),
                                  FileInfo(6, K_y, << <<"str", K_a>>, <<"str", K_b>> >>)>> >> >>,
              <<"none">>, <<"none">>, K_a, 4, <<255, 1>>, <<"some", <<"bool", TRUE>>>>)}

\* the Rust types of model.rs as schemas
T_FileInfo ==
    <<"struct", << <<N_length, <<"uint", 64>>>>, <<N_md5sum, T_Str>>,
                   <<N_path, <<"seq", T_Str>>>> >> >>

T_InfoDict ==
    <<"struct", << <<N_files, <<"option", <<"seq", T_FileInfo>>>>>>,
                   <<N_length, <<"option", <<"uint", USIZE_BITS>>>>>>,
                   <<N_md5sum, <<"option", T_Str>>>>,
                   <<N_name, T_Str>>,
                   <<N_piece_length, <<"uint", 64>>>>,
                   <<N_pieces, <<"bytes">>>>,
                   <<N_private, <<"option", <<"bool">>>>>> >> >>

\* a dictionary entry on the wire: the key as a byte string, then the value
Entry(key, encoded) == write_bytes(<<>>, key) \o encoded

\* some(v) or none
Present(present, v) == IF present THEN <<"some", v>> ELSE <<"none">>

\* the dictionary of a file of a torrent: d 6:length i5e [6:md5sum 1:x]
\* 4:path l1:pe e, and the value it stands for (an absent md5sum as none)
FileInfoWire(md5sum) ==
    <<B_d>> \o Entry(N_length, write_integer(<<>>, 5))
            \o (IF md5sum THEN Entry(N_md5sum, write_bytes(<<>>, K_x)) ELSE <<>>)
            \o Entry(N_path, <<B_l>> \o write_bytes(<<>>, K_p) \o <<B_e>>)
            \o <<B_e>>

FileInfoValue(md5sum) ==
    <<"struct", << <<N_length, <<"int", 5>>>>,
                   <<N_md5sum, IF md5sum THEN <<"str", K_x>> ELSE <<"none">>>>,
                   <<N_path, <<"seq", << <<"str", K_p>> >> >> >> >> >>

\* how the optional key `files` can stand in an info dictionary: absent, a
\* list of one file with md5sum, a list of one file without
FilesShapes == {"absent", "with_md5sum", "without_md5sum"}

\* the info dictionary with the required keys name, piece length and
\* pieces, and the optional keys that are asked for, keys ascending
InfoDictWire(files, length, md5sum, private) ==
    <<B_d>> \o (IF files = "absent" THEN <<>>
                ELSE Entry(N_files, <<B_l>> \o FileInfoWire(files = "with_md5sum")
                                           \o <<B_e>>))
            \o (IF length THEN Entry(N_length, write_integer(<<>>, 5)) ELSE <<>>)
            \o (IF md5sum THEN Entry(N_md5sum, write_bytes(<<>>, K_y)) ELSE <<>>)
            \o Entry(N_name, write_bytes(<<>>, K_a))
            \o Entry(N_piece_length, write_integer(<<>>, 4))
            \o Entry(N_pieces, write_bytes(<<>>, <<255, 1>>))
            \o (IF private THEN Entry(N_private, write_integer(<<>>, 1)) ELSE <<>>)
            \o <<B_e>>

InfoDictValue(files, length, md5sum, private) ==
    InfoDict(Present(files # "absent",
                     <<"seq", <<FileInfoValue(files = "with_md5sum")>> >>),
             Present(length, <<"int", 5>>),
             Present(md5sum, <<"str", K_y>>),
             K_a, 4, <<255, 1>>,
             Present(private, <<"bool", TRUE>>))

\* FileInfo and InfoDict decoded from dictionaries that hold the required
\* keys and any subset of the optional ones
J_Schema ==
    {<<T_FileInfo, <<"raw", "schema", FileInfoValue(m)>>, FileInfoWire(m)>> :
        m \in BOOLEAN}
    \cup {<<T_InfoDict, <<"raw", "schema", InfoDictValue(f, l, m, p)>>,
            InfoDictWire(f, l, m, p)>> :
             f \in FilesShapes, l \in BOOLEAN, m \in BOOLEAN, p \in BOOLEAN}

\* integer tokens the grammar of section 3 does not allow, with the error
\* they are to be refused with ("reject": any error)
\* <<type, bytes between `i` and the end of the token, error>>
BadIntTokens ==
    { <<U16, <<B_0, B_0, 55, B_e>>, "reject">>,                       \* i007e
      <<<<"sint", 16>>, <<B_0, B_0, 55, B_e>>, "reject">>,
      <<U16, <<B_0, B_0, B_e>>, "reject">>,                           \* i00e
      <<<<"sint", 16>>, <<B_minus, B_0, B_e>>, "reject">>,            \* i-0e
      <<U16, <<B_minus, B_0, B_e>>, "reject">>,
      <<U16, <<B_e>>, "ExpectedInteger">>,                            \* ie
      <<<<"sint", 16>>, <<B_e>>, "ExpectedInteger">>,
      <<<<"sint", 16>>, <<B_minus, B_e>>, "ExpectedInteger">>,        \* i-e
      <<U16, <<B_minus, B_e>>, "ExpectedInteger">>,
      <<U16, <<49, 50, 120>>, "ExpectedIntegerEnd">>,                 \* i12x
      <<<<"sint", 16>>, <<B_minus, 49, 50, B_colon>>, "ExpectedIntegerEnd">>,  \* i-12:
      <<<<"sint", 16>>, <<49, B_minus, B_e>>, "ExpectedIntegerEnd">> }         \* i1-e
J_IntGrammar == {<<t[1], <<"raw", "int_grammar", t[3]>>, <<B_i>> \o t[2]>> :
                    t \in BadIntTokens}

\* the entries <<key, integer>> of a dictionary in wire order, between d and e
RECURSIVE IntEntries(_)
IntEntries(es) ==
    IF es = <<>> THEN <<>>
    ELSE Entry(Head(es)[1], write_integer(<<>>, Head(es)[2])) \o IntEntries(Tail(es))

\* dictionaries whose keys are out of order or repeated, and the value each
\* is to decode to (a repeated key with the value of its last occurrence)
\* <<type, entries in wire order, value>>
LenientDicts ==
    { <<<<"map", T_Str, U16>>, << <<K_b, 7>>, <<K_a, 0>> >>,
        <<"map", << <<<<"str", K_a>>, <<"int", 0>>>>, <<<<"str", K_b>>, <<"int", 7>>>> >>>>>>,
      <<<<"map", T_Str, U16>>, << <<K_a, 0>>, <<K_a, 7>> >>,
        <<"map", << <<<<"str", K_a>>, <<"int", 7>>>> >>>>>>,
      <<<<"map", T_Str, U16>>, << <<K_b, 7>>, <<K_a, 0>>, <<K_b, 300>>, <<K_a, 7>> >>,
        <<"map", << <<<<"str", K_a>>, <<"int", 7>>>>, <<<<"str", K_b>>, <<"int", 300>>>> >>>>>>,
      <<<<"struct", << <<K_a, U16>>, <<K_b, U16>> >> >>, << <<K_b, 7>>, <<K_a, 0>> >>,
        <<"struct", << <<K_a, <<"int", 0>>>>, <<K_b, <<"int", 7>>>> >>>>>>,
      <<T_N, << <<K_x, 1>>, <<K_a, 0>>, <<K_x, 2>> >>,
        <<"struct", << <<K_a, <<"int", 0>>>> >>>>>>,
      <<T_N, << <<K_a, 0>>, <<K_a, 7>> >>,
        <<"struct", << <<K_a, <<"int", 7>>>> >>>>>> }
J_Lenient == {<<t[1], <<"raw", "lenient", t[3], t[2]>>,
                <<B_d>> \o IntEntries(t[2]) \o <<B_e>>>> : t \in LenientDicts}

\* bytes decoded as the enum E, and what deserialize_enum is to make of
\* them: <<"ok", value>>, or <<"err", error>> ("reject": any error)
EnumInputs ==
    { <<<<49, B_colon, 117>>, <<"ok", <<"unit_variant", K_u>>>>>>,               \* 1:u
      <<<<B_d, 49, B_colon, 110, B_i, 55, B_e, B_e>>,                            \* d1:ni7ee
        <<"ok", <<"newtype_variant", K_n, <<"int", 7>>>>>>>>,
      <<<<B_d, 49, B_colon, 116, B_l, B_i, B_0, B_e, B_i, 55, B_e, B_e, B_e>>,   \* d1:tli0ei7eee
        <<"ok", <<"tuple_variant", K_t, <<<<"int", 0>>, <<"int", 7>>>>>>>>>>,
      <<<<B_d, 49, B_colon, 115, B_d, 49, B_colon, 97, B_i, 55, B_e, B_e, B_e>>, \* d1:sd1:ai7eee
        <<"ok", <<"struct_variant", K_s, << <<K_a, <<"int", 7>>>> >>>>>>>>,
      <<<<B_d, 49, B_colon, 110, B_i, 55, B_e, 120>>, <<"err", "ExpectedMapEnd">>>>,   \* d1:ni7ex
      <<<<B_d, 49, B_colon, 110, B_i, 55, B_e, B_i, 55, B_e, B_e>>,              \* d1:ni7ei7ee
        <<"err", "ExpectedMapEnd">>>>,
      <<<<B_d, 49, B_colon, 116, B_l, B_i, B_0, B_e, B_i, 55, B_e, B_e, B_l, B_e, B_e>>,
        <<"err", "ExpectedMapEnd">>>>,                                           \* d1:tli0ei7eelee
      <<<<B_i, 55, B_e>>, <<"err", "ExpectedEnum">>>>,                           \* i7e
      <<<<B_l, 49, B_colon, 117, B_e>>, <<"err", "ExpectedEnum">>>>,             \* l1:ue
      <<<<B_e>>, <<"err", "ExpectedEnum">>>>,                                    \* e
      <<<<B_d, 49, B_colon, 117, B_e>>, <<"err", "reject">>>>,                   \* d1:ue
      <<<<B_d, 49, B_colon, 117, B_d, B_e, B_e>>, <<"err", "reject">>>> }        \* d1:udee
J_EnumDecode == {<<T_E, <<"raw", "enum", t[2]>>, t[1]>> : t \in EnumInputs}

\* lists and dictionaries that lack a closing `e`: <<type, bytes>>
Unterminated ==
    { <<<<"seq", T_Str>>, <<B_l>>>>,                                   \* l
      <<<<"seq", T_Str>>, <<B_l, 49, B_colon, 97>>>>,                  \* l1:a
      <<<<"seq", U16>>, <<B_l, B_i, 49, B_e>>>>,                       \* li1e
      <<<<"seq", <<"seq", U16>>>>, <<B_l, B_l, B_i, 49, B_e>>>>,       \* lli1e
      <<<<"seq", <<"seq", U16>>>>, <<B_l, B_l, B_i, 49, B_e, B_e>>>>,  \* lli1ee
      <<<<"tuple", <<U16, U16>>>>, <<B_l, B_i, 49, B_e, B_i, 50, B_e>>>>,  \* li1ei2e
      <<<<"map", T_Str, U16>>, <<B_d>>>>,                              \* d
      <<<<"map", T_Str, U16>>, <<B_d, 49, B_colon, 97, B_i, 55, B_e>>>>,   \* d1:ai7e
      <<T_N, <<B_d>>>>,
      <<T_N, <<B_d, 49, B_colon, 97>>>>,                               \* d1:a
      <<T_N, <<B_d, 49, B_colon, 97, B_i, 55, B_e>>>>,                 \* d1:ai7e
      <<T_N, <<B_d, 49, B_colon, 120, B_l, B_i, 55, B_e>>>>,           \* d1:xli7e
      <<T_N, <<B_d, 49, B_colon, 120, B_d>>>>,                         \* d1:xd
      <<T_E, <<B_d, 49, B_colon, 110, B_i, 55, B_e>>>>,                \* d1:ni7e
      <<T_E, <<B_d, 49, B_colon, 116, B_l, B_i, B_0, B_e, B_i, 55, B_e>>>>,      \* d1:tli0ei7e
      <<T_E, <<B_d, 49, B_colon, 115, B_d, 49, B_colon, 97, B_i, 55, B_e>>>> }   \* d1:sd1:ai7e
J_Unterminated == {<<t[1], <<"raw", "unterminated">>, t[2]>> : t \in Unterminated}

\* every input of up to MaxProbeLen bytes drawn from the bytes the grammar
\* gives a meaning to, decoded as each of a few types
MaxProbeLen == 3    \* longest probe input
ProbeBytes == {B_d, B_l, B_e, B_i, B_0, 49, B_colon}
ProbeSchemas ==
    { U16, <<"sint", 16>>, T_Str, <<"seq", U16>>, <<"seq", <<"seq", T_Str>>>>,
      <<"map", T_Str, T_Str>>, T_N, T_E, <<"ignored">> }
J_Probe == {<<T, <<"raw", "probe">>, input>> :
               T \in ProbeSchemas, input \in SeqsUpTo(ProbeBytes, MaxProbeLen)}

RawJobs == J_IntRange \cup J_Unknown \cup J_Schema \cup J_IntGrammar
           \cup J_Lenient \cup J_EnumDecode \cup J_Unterminated \cup J_Probe

NoResult == [st |-> "none"]

\* the tracker client before Connection::new
TrackerIdle ==
    /\ port = 0 /\ tried = <<>> /\ conn = <<>> /\ tpc = "init"
    /\ req = [op |-> "none", tid |-> 0]
    /\ sent = <<>> /\ inbox = <<>> /\ rx = <<>>
    /\ res = [op |-> "none", st |-> "none", err |-> "", val |-> <<>>]
    /\ ops = 0 /\ abandoned = {}

Init ==
    /\ build \in {"debug", "release"}
    /\ \/ \E j \in ValueJobs : ty = j[1] /\ val = j[2] /\ wire = <<>>
       \/ \E j \in RawJobs : ty = j[1] /\ val = j[2] /\ wire = j[3]
    /\ enc = NoResult
    /\ dec = NoResult
    /\ enc2 = NoResult
    /\ pc = "start"
    /\ busy = {} /\ TrackerIdle

IsRaw == val[1] = "raw"

\* to_bytes(&val)
ToBytes ==
    /\ pc = "start" /\ ~IsRaw
    /\ enc' = to_bytes(val)
    /\ wire' = enc'.out
    /\ pc' = "encoded"
    /\ UNCHANGED <<build, ty, val, dec, enc2>>
    /\ UNCHANGED trackerVars

\* from_bytes::<ty>(&encoding)
FromBytes ==
    /\ pc = "encoded" /\ enc.st = "ok"
    /\ dec' = from_bytes(ty, wire, build = "debug")
    /\ pc' = "decoded"
    /\ UNCHANGED <<build, ty, val, wire, enc, enc2>>
    /\ UNCHANGED trackerVars

\* to_bytes(&decoded)
ReEncode ==
    /\ pc = "decoded" /\ ~IsRaw /\ dec.st = "ok"
    /\ enc2' = to_bytes(dec.val)
    /\ pc' = "reencoded"
    /\ UNCHANGED <<build, ty, val, wire, enc, dec>>
    /\ UNCHANGED trackerVars

\* from_bytes::<ty>(encoding followed by one more byte)
FromBytesTrailing ==
    /\ pc = "encoded" /\ enc.st = "ok"
    /\ \E b \in ExtraBytes :
          /\ wire' = enc.out \o <<b>>
          /\ dec' = from_bytes(ty, wire', build = "debug")
    /\ pc' = "trailing"
    /\ UNCHANGED <<build, ty, val, enc, enc2>>
    /\ UNCHANGED trackerVars

\* from_bytes::<ty>(raw bytes)
FromRaw ==
    /\ pc = "start" /\ IsRaw
    /\ dec' = from_bytes(ty, wire, build = "debug")
    /\ pc' = "decoded"
    /\ UNCHANGED <<build, ty, val, wire, enc, enc2>>
    /\ UNCHANGED trackerVars

Next == ToBytes \/ FromBytes \/ ReEncode \/ FromBytesTrailing \/ FromRaw

Spec == Init /\ [][Next]_vars

----------------------------------------------------------------------------
(* The UDP tracker client.  A datagram is the size it was sent with, the   *)
(* two words every response starts with, and a token for the bytes after   *)
(* them.                                                                   *)

RECV_BUF_SIZE == 1024
ACTION_CONNECT == 0
ACTION_ANNOUNCE == 1
ACTION_SCRAPE == 2
ACTION_ERROR == 3
EVENT_STARTED == 2
NUM_WANT == 30
PEER_SIZE == 6
PEER_ID_SIZE == 20
FIRST_PORT == 6881
LAST_PORT == 6889
\* 0x41727101980 as its high and low 32-bit halves
MAGIC_CONSTANT == <<1047, 655366528>>
\* b"TH-0.1.0---"
PEER_ID_PREFIX == <<84, 72, 45, 48, 46, 49, 46, 48, 45, 45, 45>>

MaxInbox == 1       \* datagrams the socket queues
MaxOps == 2         \* announces and scrapes on one Connection

(* Big-endian integers (byteorder::BigEndian).  A 32-bit signed integer is *)
(* an integer; a 64-bit integer is the pair of its high and low 32-bit     *)
(* halves, each read as an i32; a u32 is the pair of its 16-bit halves.    *)
(* pos is the cursor's position, counted from 0.  A receive buffer is kept  *)
(* as the bytes recv wrote into it: every byte after them is the 0 the     *)
(* buffer was created with.                                                *)
ByteAt(buf, i) == IF i <= Len(buf) THEN buf[i] ELSE 0

write_u16(v) == <<v \div 256, v % 256>>
write_i32(v) ==
    <<(v \div 16777216) % 256, (v \div 65536) % 256, (v \div 256) % 256, v % 256>>
write_u32(v) == write_u16(v[1]) \o write_u16(v[2])
write_i64(v) == write_i32(v[1]) \o write_i32(v[2])

read_u16(buf, pos) == ByteAt(buf, pos + 1) * 256 + ByteAt(buf, pos + 2)
read_i32(buf, pos) ==
    (IF ByteAt(buf, pos + 1) >= 128 THEN ByteAt(buf, pos + 1) - 256
                                    ELSE ByteAt(buf, pos + 1)) * 16777216
        + ByteAt(buf, pos + 2) * 65536 + ByteAt(buf, pos + 3) * 256 + ByteAt(buf, pos + 4)
read_u32(buf, pos) == <<read_u16(buf, pos), read_u16(buf, pos + 2)>>
read_i64(buf, pos) == <<read_i32(buf, pos), read_i32(buf, pos + 4)>>

\* `interval as u64`: sign extension to 64 bits
AsU64(i) == <<IF i < 0 THEN 0 - 1 ELSE 0, i>>

\* the transaction ids rand draws
Tids == {1, 0 - 2}
\* the nine random bytes of a peer id, and the random key of an announce
RandomStreams == {[i \in 1..9 |-> 0], [i \in 1..9 |-> 246 + i]}
RandomKeys == {<<4660, 43981>>}

(* What a tracker may send: a datagram of some size that starts with an    *)
(* action and a transaction id and goes on with bytes that differ from     *)
(* place to place; every fifth of them is 0xff.                            *)
ResponseActions == {ACTION_CONNECT, ACTION_ANNOUNCE, ACTION_SCRAPE, ACTION_ERROR, 7}
Filler(i) == IF i % 5 = 0 THEN 255 ELSE (7 * i + 3) % 128
Dgram(size, action, tid) ==
    SubSeq(write_i32(action) \o write_i32(tid) \o [i \in 1..(size - 8) |-> Filler(i)],
           1, size)
\* every action in the sizes of whole responses; announce and error
\* responses also short, ragged, filling the buffer and exceeding it
Datagrams ==
    {Dgram(s, a, t) : s \in {16, 20, 32}, a \in ResponseActions, t \in Tids}
    \cup {Dgram(s, a, t) : s \in {8, 29, 1022, 1030},
                           a \in {ACTION_ANNOUNCE, ACTION_ERROR}, t \in Tids}

\* the ports other sockets hold when try_bind_socket runs
BusySets ==
    {{}, {FIRST_PORT, FIRST_PORT + 1, FIRST_PORT + 3},
     FIRST_PORT..(LAST_PORT - 1), FIRST_PORT..LAST_PORT}

TOk(v) == [st |-> "ok", err |-> "", val |-> v]
TErr(kind, v) == [st |-> "err", err |-> kind, val |-> v]
TPanic == [st |-> "panic", err |-> "", val |-> <<>>]

\* UdpSocket::recv into `[0u8; RECV_BUF_SIZE]`: the datagram is cut to the
\* buffer; size is the datagram's own
recv(d) ==
    [buf |-> SubSeq(d, 1, Min(Len(d), RECV_BUF_SIZE)),
     len |-> Min(Len(d), RECV_BUF_SIZE),
     size |-> Len(d)]

\* String::from_utf8_lossy, for ASCII and for bytes no UTF-8 sequence can
\* start with (each of those becomes U+FFFD); a string is its code points
from_utf8_lossy(bytes) ==
    [i \in 1..Len(bytes) |-> IF bytes[i] < 128 THEN bytes[i] ELSE 65533]

\* the message of an ERROR response: the bytes from offset 8 to nread
ErrorString(buf, nread) == <<"message", from_utf8_lossy(SubSeq(buf, 9, nread))>>

RECURSIVE BindFrom(_, _, _)
\* the loop of try_bind_socket from port p on
BindFrom(p, taken, seen) ==
    IF p > LAST_PORT THEN [bound |-> FALSE, port |-> 0, tried |-> seen]
    ELSE IF p \in taken THEN BindFrom(p + 1, taken, Append(seen, p))
    ELSE [bound |-> TRUE, port |-> p, tried |-> Append(seen, p)]

\* try_bind_socket going through the range from its upper end
try_bind_socket_descending(taken) ==
    IF (FIRST_PORT..LAST_PORT) \ taken = {}
    THEN [bound |-> FALSE, port |-> 0,
          tried |-> [i \in 1..(LAST_PORT - FIRST_PORT + 1) |-> LAST_PORT - i + 1]]
    ELSE [bound |-> TRUE,
          port |-> CHOOSE q \in (FIRST_PORT..LAST_PORT) \ taken :
                       \A o \in (FIRST_PORT..LAST_PORT) \ taken : o <= q,
          tried |-> [i \in 1..(LAST_PORT + 1
                                 - (CHOOSE q \in (FIRST_PORT..LAST_PORT) \ taken :
                                       \A o \in (FIRST_PORT..LAST_PORT) \ taken : o <= q))
                        |-> LAST_PORT - i + 1]]

try_bind_socket(taken) == BindFrom(FIRST_PORT, taken, <<>>)

get_connect_request(transaction_id) ==
    write_i64(MAGIC_CONSTANT) \o write_i32(ACTION_CONNECT) \o write_i32(transaction_id)

\* the cursor reads below cannot fail: buf is the whole receive buffer
read_connect_response(buf, nread) ==
    IF ~(nread > 4) THEN TPanic
    ELSE IF read_i32(buf, 0) = ACTION_CONNECT
    THEN IF nread # 16 THEN TPanic
         ELSE TOk([kind |-> "Payload", action |-> read_i32(buf, 0),
                   connection_id |-> read_i64(buf, 8),
                   transaction_id |-> read_i32(buf, 4)])
    ELSE IF read_i32(buf, 0) = ACTION_ERROR
    THEN IF ~(nread >= 8) THEN TPanic
         ELSE TOk([kind |-> "Error", message |-> ErrorString(buf, nread)])
    ELSE TErr("IncorrectAction", <<>>)

\* connect() without the comparison of transaction ids
connect_any_transaction(buf, len, transaction_id) ==
    IF ~(len >= 16) THEN TPanic
    ELSE AndThen(read_connect_response(buf, len), LAMBDA r :
        IF r.val.kind = "Payload"
        THEN TOk(<<"connection_id", r.val.connection_id>>)
        ELSE TErr("Server", r.val.message))

\* connect(), from the datagram recv returned to its result
connect(buf, len, transaction_id) ==
    IF ~(len >= 16) THEN TPanic
    ELSE AndThen(read_connect_response(buf, len), LAMBDA r :
        IF r.val.kind = "Payload"
        THEN IF r.val.transaction_id # transaction_id
             THEN TErr("IncorrectTransactionId", <<>>)
             ELSE TOk(<<"connection_id", r.val.connection_id>>)
        ELSE TErr("Server", r.val.message))

\* stands for SHA-1: twenty bytes that the input determines
Sha1(bytes) ==
    [i \in 1..20 |->
        IF bytes = <<>> THEN i ELSE (bytes[((7 * i) % Len(bytes)) + 1] + i * Len(bytes)) % 256]

\* writable: whether File::create("rust_myfile") succeeds
get_hashed_info_dict(info_dict, writable) ==
    IF to_bytes(info_dict).st # "ok" \/ ~writable THEN TPanic
    ELSE IF Len(Sha1(to_bytes(info_dict).out)) # 20 THEN TPanic
    ELSE TOk(Sha1(to_bytes(info_dict).out))

\* random: the bytes rand hands out, one for each byte that remains
get_peer_id(random) ==
    IF Len(PEER_ID_PREFIX \o SubSeq(random, 1, PEER_ID_SIZE - Len(PEER_ID_PREFIX)))
           # PEER_ID_SIZE
    THEN TPanic
    ELSE TOk(PEER_ID_PREFIX \o SubSeq(random, 1, PEER_ID_SIZE - Len(PEER_ID_PREFIX)))

\* get_announce_request announcing the first port of the range, bound or not
get_announce_request_first_port(connection_id, transaction_id, listening_port, info_hash, peer_id, key) ==
    IF Len(info_hash) # 20 \/ Len(peer_id) # 20 THEN TPanic
    ELSE TOk(write_i64(connection_id) \o write_i32(ACTION_ANNOUNCE)
             \o write_i32(transaction_id)
             \o info_hash \o peer_id
             \o write_i64(<<0, 0>>) \o write_i64(<<0, 0>>) \o write_i64(<<0, 0>>)
             \o write_i32(EVENT_STARTED)
             \o write_u32(<<0, 0>>) \o write_u32(key)
             \o write_i32(NUM_WANT)
             \o write_u16(FIRST_PORT) \o write_u16(0))

\* key: what get_random_key returns
get_announce_request(connection_id, transaction_id, listening_port, info_hash, peer_id, key) ==
    IF Len(info_hash) # 20 \/ Len(peer_id) # 20 THEN TPanic
    ELSE TOk(write_i64(connection_id) \o write_i32(ACTION_ANNOUNCE)
             \o write_i32(transaction_id)
             \o info_hash \o peer_id
             \o write_i64(<<0, 0>>) \o write_i64(<<0, 0>>) \o write_i64(<<0, 0>>)
             \o write_i32(EVENT_STARTED)
             \o write_u32(<<0, 0>>) \o write_u32(key)
             \o write_i32(NUM_WANT)
             \o write_u16(listening_port) \o write_u16(0))

\* the peer loop running to the end of the receive buffer instead of the
\* end of the received bytes
ReadPeersToBufferEnd(buf, pos, bytes_read) ==
    [peers |-> [k \in 1..((RECV_BUF_SIZE - pos) \div PEER_SIZE) |->
                   [ip |-> read_u32(buf, pos + PEER_SIZE * (k - 1)),
                    port |-> read_u16(buf, pos + PEER_SIZE * (k - 1) + 4)]],
     bytes_left |-> 0]

\* the peer loop of read_announce_response with the cursor at pos, in closed
\* form: it reads a peer while at least PEER_SIZE bytes are left
ReadPeers(buf, pos, bytes_read) ==
    [peers |-> [k \in 1..((bytes_read - pos) \div PEER_SIZE) |->
                   [ip |-> read_u32(buf, pos + PEER_SIZE * (k - 1)),
                    port |-> read_u16(buf, pos + PEER_SIZE * (k - 1) + 4)]],
     bytes_left |-> (bytes_read - pos) % PEER_SIZE]

\* bytes_read < 20 makes `bytes_read - reader.position()` underflow: a panic
\* with overflow checks, and without them a loop that reads peers up to the
\* end of the buffer, where the unwrap of the failed read panics
read_announce_response(buf, bytes_read) ==
    IF read_i32(buf, 0) = ACTION_ANNOUNCE
    THEN IF bytes_read < 20 THEN TPanic
         ELSE IF ReadPeers(buf, 20, bytes_read).bytes_left # 0 THEN TPanic
         ELSE TOk([kind |-> "Payload", transaction_id |-> read_i32(buf, 4),
                   interval |-> AsU64(read_i32(buf, 8)),
                   num_leechers |-> read_i32(buf, 12),
                   num_seeders |-> read_i32(buf, 16),
                   peers |-> ReadPeers(buf, 20, bytes_read).peers])
    ELSE IF read_i32(buf, 0) = ACTION_ERROR
    THEN IF bytes_read < 8 THEN TPanic
         ELSE TOk([kind |-> "Error", message |-> ErrorString(buf, bytes_read)])
    ELSE TErr("Other", <<>>)

\* an announce that takes a payload whatever transaction id it carries
announce_any_transaction(buf, len, transaction_id) ==
    IF ~(len >= 20) THEN TPanic
    ELSE IF read_announce_response(buf, len).st = "err" THEN TErr("Tokio", <<>>)
    ELSE AndThen(read_announce_response(buf, len), LAMBDA r :
        IF r.val.kind = "Payload"
        THEN TOk(<<"payload", r.val>>)
        ELSE TErr("Server", r.val.message))

\* Connection::announce, from the datagram recv returned to its result; an
\* error of read_announce_response is wrapped into Error::Tokio
announce(buf, len, transaction_id) ==
    IF ~(len >= 20) THEN TPanic
    ELSE IF read_announce_response(buf, len).st = "err" THEN TErr("Tokio", <<>>)
    ELSE AndThen(read_announce_response(buf, len), LAMBDA r :
        IF r.val.kind = "Payload"
        THEN IF r.val.transaction_id # transaction_id
             THEN TErr("Server", <<"literal", "received incorrect transaction id">>)
             ELSE TOk(<<"payload", r.val>>)
        ELSE TErr("Server", r.val.message))

get_scrape_request(connection_id, transaction_id) ==
    write_i64(connection_id) \o write_i32(ACTION_SCRAPE) \o write_i32(transaction_id)

\* Connection::scrape, from the datagram recv returned to its result
scrape(buf, len, transaction_id) ==
    IF ~(len >= 20) THEN TPanic ELSE TOk(<<>>)

Finished(op, r) == [op |-> op, st |-> r.st, err |-> r.err, val |-> r.val]

TInit ==
    /\ build = "release" /\ ty = <<>> /\ val = <<>> /\ wire = <<>>
    /\ enc = NoResult /\ dec = NoResult /\ enc2 = NoResult /\ pc = "idle"
    /\ busy \in BusySets
    /\ TrackerIdle

\* Connection::new up to the recv of connect(): try_bind_socket takes the
\* first port that binds, the socket is connected, the connect request is
\* sent
Connection_new ==
    /\ tpc = "init"
    /\ tried' = try_bind_socket(busy).tried
    /\ IF ~try_bind_socket(busy).bound
       THEN /\ res' = Finished("connect", TErr("PortsExhausted", <<>>))
            /\ tpc' = "failed"
            /\ UNCHANGED <<port, req, sent>>
       ELSE /\ port' = try_bind_socket(busy).port
            /\ \E t \in Tids :
                  /\ req' = [op |-> "connect", tid |-> t]
                  /\ sent' = get_connect_request(t)
            /\ tpc' = "connect_wait"
            /\ UNCHANGED res
    /\ UNCHANGED <<busy, abandoned, conn, inbox, rx, ops, codecVars>>

\* the network hands the socket a datagram while a recv waits for one (one
\* that came before the request was sent is read by that recv all the same)
Deliver ==
    /\ tpc \in {"connect_wait", "announce_wait", "scrape_wait"}
    /\ Len(inbox) < MaxInbox
    /\ \E d \in Datagrams : inbox' = Append(inbox, d)
    /\ UNCHANGED <<busy, abandoned, port, tried, conn, tpc, req, sent, rx, res, ops, codecVars>>

\* recv returned inside connect(): the rest of connect() and of
\* Connection::new
connect_recv ==
    /\ tpc = "connect_wait" /\ inbox # <<>>
    /\ rx' = <<recv(Head(inbox))>>
    /\ inbox' = Tail(inbox)
    /\ res' = Finished("connect", connect(rx'[1].buf, rx'[1].len, req.tid))
    /\ conn' = IF res'.st = "ok" THEN <<[id |-> res'.val[2], port |-> port]>> ELSE conn
    /\ tpc' = CASE res'.st = "ok" -> "ready"
                [] res'.st = "panic" -> "dead"
                [] OTHER -> "failed"
    /\ UNCHANGED <<busy, abandoned, port, tried, req, sent, ops, codecVars>>

\* a deadline that, when it passes, also drops the Connection
TimeoutClosingConnection ==
    /\ tpc \in {"connect_wait", "announce_wait", "scrape_wait"}
    /\ inbox = <<>>
    /\ res' = Finished(req.op, TErr("Timeout", <<>>))
    /\ tpc' = "failed"
    /\ conn' = <<>>
    /\ abandoned' = abandoned \cup {req}
    /\ UNCHANGED <<busy, port, tried, req, sent, inbox, rx, ops, codecVars>>

\* the 2-second deadline of a recv passed with nothing queued
Timeout ==
    /\ tpc \in {"connect_wait", "announce_wait", "scrape_wait"}
    /\ inbox = <<>>
    /\ res' = Finished(req.op, TErr("Timeout", <<>>))
    /\ tpc' = IF tpc = "connect_wait" THEN "failed" ELSE "ready"
    /\ abandoned' = abandoned \cup {req}
    /\ UNCHANGED <<busy, port, tried, conn, req, sent, inbox, rx, ops, codecVars>>

\* what get_hashed_info_dict can return to Connection::announce
HashedInfoDicts ==
    {get_hashed_info_dict(info_dict, writable) :
        info_dict \in InfoDicts, writable \in BOOLEAN}

\* the request Connection::announce builds, or the panic that ends it
AnnounceRequest(c, hashed_info_dict, t, random, key) ==
    AndThen(hashed_info_dict, LAMBDA h :
    AndThen(get_peer_id(random), LAMBDA p :
        get_announce_request(c.id, t, c.port, h.val, p.val, key)))

\* Connection::announce up to its recv
announce_send ==
    /\ tpc = "ready" /\ ops < MaxOps
    /\ \E h \in HashedInfoDicts, t \in Tids, random \in RandomStreams,
          key \in RandomKeys :
          IF AnnounceRequest(conn[1], h, t, random, key).st = "ok"
          THEN /\ req' = [op |-> "announce", tid |-> t]
               /\ sent' = AnnounceRequest(conn[1], h, t, random, key).val
               /\ tpc' = "announce_wait"
               /\ UNCHANGED res
          ELSE /\ res' = Finished("announce", TPanic)
               /\ tpc' = "dead"
               /\ UNCHANGED <<req, sent>>
    /\ rx' = <<>>
    /\ ops' = ops + 1
    /\ UNCHANGED <<busy, abandoned, port, tried, conn, inbox, codecVars>>

\* recv returned inside Connection::announce: the rest of it
announce_recv ==
    /\ tpc = "announce_wait" /\ inbox # <<>>
    /\ rx' = <<recv(Head(inbox))>>
    /\ inbox' = Tail(inbox)
    /\ res' = Finished("announce", announce(rx'[1].buf, rx'[1].len, req.tid))
    /\ tpc' = IF res'.st = "panic" THEN "dead" ELSE "ready"
    /\ UNCHANGED <<busy, abandoned, port, tried, conn, req, sent, ops, codecVars>>

\* Connection::scrape up to its recv
scrape_send ==
    /\ tpc = "ready" /\ ops < MaxOps
    /\ \E t \in Tids :
          /\ req' = [op |-> "scrape", tid |-> t]
          /\ sent' = get_scrape_request(conn[1].id, t)
    /\ rx' = <<>>
    /\ tpc' = "scrape_wait"
    /\ ops' = ops + 1
    /\ UNCHANGED <<busy, abandoned, port, tried, conn, inbox, res, codecVars>>

\* recv returned inside Connection::scrape: the rest of it
scrape_recv ==
    /\ tpc = "scrape_wait" /\ inbox # <<>>
    /\ rx' = <<recv(Head(inbox))>>
    /\ inbox' = Tail(inbox)
    /\ res' = Finished("scrape", scrape(rx'[1].buf, rx'[1].len, req.tid))
    /\ tpc' = IF res'.st = "panic" THEN "dead" ELSE "ready"
    /\ UNCHANGED <<busy, abandoned, port, tried, conn, req, sent, ops, codecVars>>

TNext ==
    \/ Connection_new \/ Deliver \/ connect_recv \/ Timeout
    \/ announce_send \/ announce_recv \/ scrape_send \/ scrape_recv

SpecTracker == TInit /\ [][TNext]_vars

\* the runtime polls the timer and the socket: a deadline that has passed
\* and a datagram that is queued are eventually given to the waiting recv
SpecTrackerFair ==
    /\ TInit /\ [][TNext]_vars
    /\ WF_vars(Timeout)
    /\ WF_vars(connect_recv) /\ WF_vars(announce_recv) /\ WF_vars(scrape_recv)

----------------------------------------------------------------------------
(* What the properties below are stated with.                              *)

RECURSIVE Canon(_)
\* a value up to the iteration order of its maps: a map becomes the set of
\* its entries
Canon(v) ==
    CASE v[1] \in {"some"} -> <<v[1], Canon(v[2])>>
      [] v[1] \in {"seq", "tuple"} -> <<v[1], [i \in 1..Len(v[2]) |-> Canon(v[2][i])]>>
      [] v[1] = "map" ->
            <<"map", {<<Canon(v[2][i][1]), Canon(v[2][i][2])>> : i \in 1..Len(v[2])}>>
      [] v[1] = "struct" ->
            <<"struct", [i \in 1..Len(v[2]) |-> <<v[2][i][1], Canon(v[2][i][2])>>]>>
      [] v[1] = "newtype_variant" -> <<v[1], v[2], Canon(v[3])>>
      [] v[1] = "tuple_variant" ->
            <<v[1], v[2], [i \in 1..Len(v[3]) |-> Canon(v[3][i])]>>
      [] v[1] = "struct_variant" ->
            <<v[1], v[2], [i \in 1..Len(v[3]) |-> <<v[3][i][1], Canon(v[3][i][2])>>]>>
      [] OTHER -> v

RECURSIVE SkipDigits(_)
SkipDigits(input) ==
    IF input # <<>> /\ IsDigit(Head(input)) THEN SkipDigits(Tail(input)) ELSE input

WOk(rest, sorted) == [st |-> "ok", rest |-> rest, sorted |-> sorted]
WBad == [st |-> "bad", rest |-> <<>>, sorted |-> TRUE]

\* an integer token after its `i`
WalkInt(input) ==
    LET digits == IF input # <<>> /\ Head(input) = B_minus THEN Tail(input) ELSE input
        after == SkipDigits(digits)
    IN IF after # digits /\ after # <<>> /\ Head(after) = B_e
       THEN WOk(Tail(after), TRUE) ELSE WBad

\* a byte string token
WalkBytes(input) ==
    LET len == SkipDigits(input)
        n == Len(input) - Len(len)
        size == IF n = 0 THEN 0 ELSE Undigits(SubSeq(input, 1, n))
    IN IF n = 0 \/ len = <<>> \/ Head(len) # B_colon \/ Len(len) - 1 < size THEN WBad
       ELSE [st |-> "ok", rest |-> SubSeq(len, size + 2, Len(len)), sorted |-> TRUE,
             bytes |-> SubSeq(len, 2, size + 1)]

RECURSIVE WalkValue(_)
RECURSIVE WalkList(_, _)
RECURSIVE WalkDict(_, _, _)

\* reads one bencoded value of any shape; sorted tells whether every
\* dictionary in it, at every depth, has strictly ascending keys
WalkValue(input) ==
    IF input = <<>> THEN WBad
    ELSE CASE IsDigit(Head(input)) -> WalkBytes(input)
           [] Head(input) = B_i -> WalkInt(Tail(input))
           [] Head(input) = B_l -> WalkList(Tail(input), TRUE)
           [] Head(input) = B_d -> WalkDict(Tail(input), <<>>, TRUE)
           [] OTHER -> WBad

WalkList(input, sorted) ==
    IF input = <<>> THEN WBad
    ELSE IF Head(input) = B_e THEN WOk(Tail(input), sorted)
    ELSE AndThen(WalkValue(input), LAMBDA v : WalkList(v.rest, sorted /\ v.sorted))

\* prev is <<>> before the first key and <<key>> after one
WalkDict(input, prev, sorted) ==
    IF input = <<>> THEN WBad
    ELSE IF Head(input) = B_e THEN WOk(Tail(input), sorted)
    ELSE AndThen(WalkBytes(input), LAMBDA k :
         AndThen(WalkValue(k.rest), LAMBDA v :
             WalkDict(v.rest, <<k.bytes>>,
                      sorted /\ v.sorted /\ (prev = <<>> \/ LexLess(prev[1], k.bytes)))))

\* no dictionary of the value the bytes hold has its keys out of order
WalkedSorted(w) == w.st = "ok" => w.sorted
KeysAscending(bytes) == WalkedSorted(WalkValue(bytes))

RECURSIVE RefSort(_)
\* the entries <<key bytes, value>> in ascending order of their (distinct) keys
RefSort(es) ==
    IF es = <<>> THEN <<>>
    ELSE LET i == CHOOSE i \in 1..Len(es) :
                      \A j \in 1..Len(es) : j = i \/ LexLess(es[i][1], es[j][1])
         IN <<es[i]>> \o RefSort(SubSeq(es, 1, i - 1) \o SubSeq(es, i + 1, Len(es)))

RefStr(bytes) == Display(Len(bytes)) \o <<B_colon>> \o bytes

\* a dictionary entry; nothing at all for a value that encodes to nothing
RefEntry(key, encoded) == IF encoded = <<>> THEN <<>> ELSE RefStr(key) \o encoded

RECURSIVE RefEnc(_)
RECURSIVE RefEncAll(_)
RECURSIVE RefEncEntries(_)

\* the bencoding of a value as section 3 of the format describes it: the
\* encoding every claim about the emitted bytes is compared with
RefEnc(v) ==
    CASE v[1] = "int" -> <<B_i>> \o Display(v[2]) \o <<B_e>>
      [] v[1] \in {"str", "bytes"} -> RefStr(v[2])
      [] v[1] = "none" -> <<>>
      [] v[1] = "some" -> RefEnc(v[2])
      [] v[1] \in {"seq", "tuple"} -> <<B_l>> \o RefEncAll(v[2]) \o <<B_e>>
      [] v[1] = "map" ->
            <<B_d>> \o RefEncEntries(RefSort([i \in 1..Len(v[2]) |->
                                                 <<v[2][i][1][2], v[2][i][2]>>])) \o <<B_e>>
      [] v[1] = "struct" -> <<B_d>> \o RefEncEntries(RefSort(v[2])) \o <<B_e>>
      [] v[1] = "unit_variant" -> RefStr(v[2])
      [] v[1] = "newtype_variant" -> <<B_d>> \o RefStr(v[2]) \o RefEnc(v[3]) \o <<B_e>>
      [] v[1] = "tuple_variant" ->
            <<B_d>> \o RefStr(v[2]) \o <<B_l>> \o RefEncAll(v[3]) \o <<B_e, B_e>>
      [] v[1] = "struct_variant" ->
            <<B_d>> \o RefStr(v[2]) \o <<B_d>> \o RefEncEntries(RefSort(v[3]))
                \o <<B_e, B_e>>

RefEncAll(xs) == IF xs = <<>> THEN <<>> ELSE RefEnc(Head(xs)) \o RefEncAll(Tail(xs))

RefEncEntries(es) ==
    IF es = <<>> THEN <<>>
    ELSE RefEntry(Head(es)[1], RefEnc(Head(es)[2])) \o RefEncEntries(Tail(es))

RECURSIVE Contains(_, _)
\* the value has, at some depth, a part of one of the kinds
Contains(v, kinds) ==
    \/ v[1] \in kinds
    \/ CASE v[1] = "some" -> Contains(v[2], kinds)
         [] v[1] \in {"seq", "tuple"} -> \E i \in 1..Len(v[2]) : Contains(v[2][i], kinds)
         [] v[1] = "map" -> \E i \in 1..Len(v[2]) : Contains(v[2][i][2], kinds)
         [] v[1] = "struct" -> \E i \in 1..Len(v[2]) : Contains(v[2][i][2], kinds)
         [] v[1] = "newtype_variant" -> Contains(v[3], kinds)
         [] v[1] = "tuple_variant" -> \E i \in 1..Len(v[3]) : Contains(v[3][i], kinds)
         [] v[1] = "struct_variant" -> \E i \in 1..Len(v[3]) : Contains(v[3][i][2], kinds)
         [] OTHER -> FALSE

VariantKinds == {"unit_variant", "newtype_variant", "tuple_variant", "struct_variant"}

----------------------------------------------------------------------------
(* The properties.                                                         *)

\* the shapes the round trip is promised for: records with nested records,
\* lists, absent optionals, byte buffers and tagged unions
RoundTripJobs ==
    J_Flat \cup J_Opt \cup J_Nested \cup J_List \cup J_Bytes \cup J_SeqRec
    \cup J_SeqNested \cup J_Enum \cup J_RecEnum \cup J_VarRec

\* C1: decoding the encoding of a value gives the value back:
\* from_bytes(to_bytes(v)) = v, for records with nested records, lists,
\* absent optionals, byte buffers and tagged unions.
C1_RoundTrip ==
    (pc = "decoded" /\ ~IsRaw /\ <<ty, val>> \in RoundTripJobs)
        => (dec.st = "ok" /\ Canon(dec.val) = Canon(val))

\* C2: whenever to_bytes returns an encoding, every dictionary in it, at
\* every nesting depth, has its keys in ascending order of their raw bytes.
C2_KeysSorted ==
    (pc = "encoded" /\ enc.st = "ok") => KeysAscending(enc.out)

\* C3: encoding is canonical: decoding an encoding and encoding the result
\* again gives the same bytes, to_bytes(from_bytes(to_bytes(v))) = to_bytes(v).
C3_Canonical ==
    /\ (pc = "decoded" /\ ~IsRaw) => dec.st = "ok"
    /\ pc = "reencoded" => (enc2.st = "ok" /\ enc2.out = enc.out)

\* C4: from_bytes returns a value only when it has consumed the whole
\* buffer, and an encoding followed by one more byte is refused with
\* TrailingCharacters.
C4_TrailingBytes ==
    /\ (pc \in {"decoded", "trailing"} /\ dec.st = "ok") => dec.rest = <<>>
    /\ pc = "trailing" => (dec.st = "err" /\ dec.err = "TrailingCharacters")

\* C5: a record field or map value that is absent (None) leaves no key and
\* no placeholder in the encoding, and every other entry of the same
\* dictionary is still emitted; decoding the dictionary, which lacks the
\* key of the optional field, yields absence for that field.
C5_OptionalOmission ==
    /\ (pc = "encoded" /\ Contains(val, {"none"}))
          => (enc.st = "ok" /\ enc.out = RefEnc(val))
    /\ (pc = "decoded" /\ ~IsRaw /\ val[1] = "struct" /\ Contains(val, {"none"}))
          => (dec.st = "ok" /\ Canon(dec.val) = Canon(val))

\* a record with an absent and a present optional field was encoded without
\* the absent key and decoded back with the field absent
C5_Witness ==
    /\ pc = "decoded" /\ ty = T_Opt
    /\ val[2][1][2] = <<"none">> /\ val[2][2][2] # <<"none">>
    /\ enc.out = RefEnc(val) /\ dec.st = "ok"
    /\ dec.val[2][1][2] = <<"none">> /\ dec.val[2][2][2] = val[2][2][2]

\* C6: an integer token whose value does not fit the requested integer
\* type is refused with an error: no wrapped or truncated value is
\* returned and the decoder does not abort.
C6_IntegerRange ==
    (pc = "decoded" /\ IsRaw /\ val[2] = "int_range" /\ ~val[3]) => dec.st = "err"

\* C7: a unit variant is emitted as its bare name, a newtype variant as
\* d<name><payload>e, a tuple variant as d<name>l..ee and a record variant
\* as d<name>d..ee, at the top level, as a field of a record, and when a
\* field of a record variant is itself a record.
C7_TaggedUnionEmit ==
    (pc = "encoded" /\ Contains(val, VariantKinds))
        => (enc.st = "ok" /\ enc.out = RefEnc(val))

\* C8: to_bytes returns an encoding for every value without a float: no
\* assertion or expect of the encoder fails.
C8_EncoderTotal ==
    (pc = "encoded" /\ ~Contains(val, {"f64"})) => enc.st = "ok"

\* C9: a key the schema does not name is skipped together with its value,
\* whatever well-formed shape the value has, and the named fields decode
\* as if the entry were not there.
C9_UnknownKeys ==
    (pc = "decoded" /\ IsRaw /\ val[2] = "unknown_key")
        => (dec.st = "ok" /\ Canon(dec.val) = Canon(val[3]))

\* the value an operation returned was taken from the response
FromResponse(v) == v # <<>> /\ v[1] \in {"connection_id", "payload", "message"}

\* the datagram is a whole response for the operation: it has the bytes the
\* operation requires of any response and the layout of its own action
WholeResponse(op, r) ==
    /\ r.len >= (IF op = "connect" THEN 16 ELSE 20)
    /\ read_i32(r.buf, 0) = ACTION_CONNECT => r.len = 16
    /\ read_i32(r.buf, 0) = ACTION_ANNOUNCE => (r.len - 20) % PEER_SIZE = 0

\* C10: when connect, announce or scrape receives a response whose
\* transaction id differs from the request's, whatever the response's
\* action, the operation returns an error and uses none of the response's
\* content.
C10_TransactionMatching ==
    (rx # <<>> /\ res.op = req.op /\ tpc \in {"ready", "failed", "dead"}
        /\ WholeResponse(req.op, rx[1]) /\ read_i32(rx[1].buf, 4) # req.tid)
        => (res.st = "err" /\ ~FromResponse(res.val))

----------------------------------------------------------------------------
(* The codec's further properties.                                         *)

\* C21: a dictionary that holds every required key of FileInfo or of
\* InfoDict decodes whichever of the optional keys it holds, each missing
\* optional key decoding as absent: a FileInfo with length and path but no
\* md5sum decodes, and so does an InfoDict without files, length, md5sum
\* or private.
C21_TorrentSchema ==
    (pc = "decoded" /\ IsRaw /\ val[2] = "schema")
        => (dec.st = "ok" /\ Canon(dec.val) = Canon(val[3]))

\* C22: the decoder refuses an integer token with redundant leading zeros
\* (i007e, i00e) and refuses i-0e; it refuses a token without a digit (ie,
\* i-e) with ExpectedInteger and a token whose digits are not followed by
\* `e` with ExpectedIntegerEnd.
C22_IntegerGrammar ==
    (pc = "decoded" /\ IsRaw /\ val[2] = "int_grammar")
        => (dec.st = "err" /\ (val[3] # "reject" => dec.err = val[3]))

\* C23: decoding a dictionary whose keys are not in ascending order, or in
\* which a key occurs more than once, does not fail, and a key that occurs
\* several times decodes to the value of its last occurrence.
C23_LenientDictionary ==
    (pc = "decoded" /\ IsRaw /\ val[2] = "lenient")
        => (dec.st = "ok" /\ Canon(dec.val) = Canon(val[3]))

\* C24: where an enum is expected, a digit ahead makes the decoder read one
\* byte string as the name of a unit variant; a `d` ahead makes it consume
\* the `d`, read the variant's name, decode the payload by the variant's
\* kind and require a closing `e` (ExpectedMapEnd otherwise); any other
\* byte ahead gives ExpectedEnum; a unit variant in the dictionary form is
\* refused; and every variant value of the four kinds decodes from its
\* encoding to itself, from_bytes(to_bytes(e)) = e.
C24_TaggedUnionDecode ==
    /\ (pc = "decoded" /\ IsRaw /\ val[2] = "enum")
          => IF val[3][1] = "ok"
             THEN dec.st = "ok" /\ dec.val = val[3][2]
             ELSE dec.st = "err" /\ (val[3][2] # "reject" => dec.err = val[3][2])
    /\ (pc = "encoded" /\ val[1] \in VariantKinds) => enc.st = "ok"
    /\ (pc = "decoded" /\ val[1] \in VariantKinds)
          => (dec.st = "ok" /\ Canon(dec.val) = Canon(val))

\* every element is a record or a map
AllRecords(xs) == \A i \in 1..Len(xs) : xs[i][1] \in {"struct", "map"}

\* a sequence, a tuple (a tuple struct is serialized as a tuple is) or a
\* tuple variant whose elements are records or maps
ListOfRecords(v) ==
    \/ v[1] \in {"seq", "tuple"} /\ AllRecords(v[2])
    \/ v[1] = "tuple_variant" /\ AllRecords(v[3])

\* C25: a sequence, a tuple, a tuple struct or a tuple variant whose
\* elements are records or maps is emitted as `l`, the canonical dictionary
\* of each element in element order, and `e` (inside d<name> .. e for the
\* variant): every element's bytes lie between the `l` and its `e`, however
\* many elements there are.
C25_ListsOfRecords ==
    (pc = "encoded" /\ ~IsRaw /\ ListOfRecords(val))
        => (enc.st = "ok" /\ enc.out = RefEnc(val))

\* C26: every value of a signed or unsigned integer type, the smallest
\* signed value -2^(w-1) and the largest values included, decodes from the
\* encoder's output for it, into the same type, to itself.
C26_FullIntegerRange ==
    /\ (pc = "encoded" /\ ty[1] \in {"sint", "uint"}) => enc.st = "ok"
    /\ (pc = "decoded" /\ ~IsRaw /\ ty[1] \in {"sint", "uint"})
          => (dec.st = "ok" /\ dec.val = val)

MaxLenDigits == 9    \* digits of a length that fit the model's integers

RECURSIVE SubSchemas(_)
\* the types a decode of T decodes parts of the input as
SubSchemas(T) ==
    {T} \cup
    CASE T[1] \in {"option", "seq"} -> SubSchemas(T[2])
      [] T[1] = "tuple" -> UNION {SubSchemas(T[2][i]) : i \in 1..Len(T[2])}
      [] T[1] = "map" -> SubSchemas(T[2]) \cup SubSchemas(T[3])
      [] T[1] = "struct" -> UNION {SubSchemas(T[2][i][2]) : i \in 1..Len(T[2])}
      [] T[1] = "enum" ->
            UNION {IF T[2][i][2] = "unit" THEN {}
                   ELSE IF T[2][i][2] = "newtype" THEN SubSchemas(T[2][i][3])
                   ELSE SubSchemas(<<T[2][i][2], T[2][i][3]>>) : i \in 1..Len(T[2])}
      [] OTHER -> {}

\* what keys, lengths and skipped values are read as
TokenSchemas == {T_Str, <<"bytes">>, U16, <<"sint", 16>>, <<"ignored">>}

\* r is input without at least its first byte
ProperSuffix(r, input) ==
    Len(r) < Len(input) /\ r = SubSeq(input, Len(input) - Len(r) + 1, Len(input))

\* a step that succeeds leaves a proper suffix of what it was given
Consumes(r, input) == r.st = "ok" => ProperSuffix(r.rest, input)

\* input holds a number of more decimal digits than the 64-bit reads of a
\* length or of a skipped integer are computed with here
LongNumber(input) ==
    \E k \in 1..Len(input) :
        /\ k + MaxLenDigits - 1 <= Len(input)
        /\ \A i \in k..(k + MaxLenDigits - 1) : IsDigit(input[i])

\* every step the decoder can be asked for, at every position of the input
Progress(T, input, oc) ==
    \A S \in SubSchemas(T) \cup TokenSchemas, k \in 1..(Len(input) + 1) :
        Consumes(Deserialize(S, SubSeq(input, k, Len(input)), oc),
                 SubSeq(input, k, Len(input)))

\* the input is a list or dictionary that only lacks its last byte, `e`
LacksEnd(T, input, oc) ==
    /\ T[1] \in {"seq", "tuple", "map", "struct", "enum"}
    /\ from_bytes(T, input \o <<B_e>>, oc).st = "ok"

\* C29: what the decoder has left to read is always a suffix of the buffer
\* and never grows; every token, list element and dictionary entry that is
\* parsed consumes at least one byte; from_bytes returns on every input,
\* and on a list or dictionary that is not terminated it returns Eof.
C29_DecoderProgress ==
    /\ pc \in {"decoded", "trailing"}
          => /\ dec.st \in {"ok", "err", "panic"}
             /\ dec.st = "ok" => dec.rest = <<>>
             /\ LongNumber(wire) \/ Progress(ty, wire, build = "debug")
    /\ (pc = "decoded" /\ IsRaw /\ val[2] = "unterminated")
          => (dec.st = "err" /\ dec.err = "Eof")
    /\ (pc = "decoded" /\ IsRaw /\ val[2] = "probe"
           /\ LacksEnd(ty, wire, build = "debug"))
          => (dec.st = "err" /\ dec.err = "Eof")

\* a list with one element and no end was refused with Eof
C29_Witness ==
    /\ pc = "decoded" /\ IsRaw /\ val[2] = "unterminated"
    /\ ty = <<"seq", U16>> /\ wire = <<B_l, B_i, 49, B_e>>
    /\ dec.st = "err" /\ dec.err = "Eof"

\* a probe that lacks only the end of its list was refused with Eof
C29_WitnessProbe ==
    /\ pc = "decoded" /\ IsRaw /\ val[2] = "probe"
    /\ ty = <<"seq", <<"seq", T_Str>>>> /\ wire = <<B_l, B_l, B_e>>
    /\ dec.st = "err" /\ dec.err = "Eof"

\* the serializer as serialize_value and serialize_field hand it to the value
ForValue(s) == [s EXCEPT !.output = <<>>, !.map_state = <<>>]

RECURSIVE Calls(_, _)
RECURSIVE SeqCalls(_, _)
RECURSIVE TupleCalls(_, _)
RECURSIVE MapCalls(_, _)
RECURSIVE FieldCalls(_, _)

\* the calls of serialize_element on the elements of a list, s being the
\* serializer before the first of xs
SeqCalls(xs, s) ==
    IF xs = <<>> \/ s.st # "ok" THEN {}
    ELSE Calls(Head(xs), s) \cup SeqCalls(Tail(xs), SeqElements(<<Head(xs)>>, s))

TupleCalls(xs, s) ==
    IF xs = <<>> \/ s.st # "ok" THEN {}
    ELSE Calls(Head(xs), s) \cup TupleCalls(Tail(xs), Serialize(Head(xs), s))

\* serialize_key, then the observed serialize_value, for each entry
MapCalls(ps, s) ==
    IF ps = <<>> \/ s.st # "ok" \/ serialize_key(Head(ps)[1], s).st # "ok" THEN {}
    ELSE {<<serialize_key(Head(ps)[1], s),
            serialize_value(Head(ps)[2], serialize_key(Head(ps)[1], s)),
            Head(ps)[2]>>}
         \cup Calls(Head(ps)[2], ForValue(serialize_key(Head(ps)[1], s)))
         \cup MapCalls(Tail(ps), MapEntries(<<Head(ps)>>, s))

\* the observed serialize_field, for each field
FieldCalls(fs, s) ==
    IF fs = <<>> \/ s.st # "ok" THEN {}
    ELSE {<<s, serialize_field(Head(fs)[1], Head(fs)[2], s), Head(fs)[2]>>}
         \cup Calls(Head(fs)[2], ForValue(s))
         \cup FieldCalls(Tail(fs), serialize_field(Head(fs)[1], Head(fs)[2], s))

\* every call of serialize_value and serialize_field that Serialize(v, s)
\* makes: <<the serializer before the call, the serializer after it, the
\* value>>
Calls(v, s) ==
    IF s.st # "ok" THEN {}
    ELSE CASE v[1] = "some" -> Calls(v[2], s)
           [] v[1] = "newtype_variant" ->
                MapCalls(<< <<<<"str", v[2]>>, v[3]>> >>, serialize_map(s))
           [] v[1] = "seq" -> SeqCalls(v[2], [s EXCEPT !.output = s.output \o <<B_l>>])
           [] v[1] = "tuple" -> TupleCalls(v[2], [s EXCEPT !.output = s.output \o <<B_l>>])
           [] v[1] = "tuple_variant" ->
                TupleCalls(v[3], [s EXCEPT !.output =
                                     write_bytes(s.output \o <<B_d>>, v[2]) \o <<B_l>>])
           [] v[1] = "map" -> MapCalls(v[2], serialize_map(s))
           [] v[1] = "struct" -> FieldCalls(v[2], serialize_map(s))
           [] v[1] = "struct_variant" ->
                FieldCalls(v[3], serialize_map(
                    [s EXCEPT !.output = write_bytes(s.output \o <<B_d>>, v[2])]))
           [] OTHER -> {}

\* after is the frame of before with at most one more pair, over the same
\* main output
FrameKept(before, after) ==
    /\ after.map_state # <<>>
    /\ after.map_state[1].output = before.map_state[1].output
    /\ Len(after.map_state[1].ordered_pairs)
          \in {Len(before.map_state[1].ordered_pairs),
               Len(before.map_state[1].ordered_pairs) + 1}
    /\ SubSeq(after.map_state[1].ordered_pairs, 1,
              Len(before.map_state[1].ordered_pairs))
          = before.map_state[1].ordered_pairs
    /\ after.output = before.output

\* C30: when serialize_field or serialize_value returns Ok for a dictionary,
\* map_state is again the frame of that dictionary, its earlier pairs
\* unchanged and at most one pair appended, and the main output buffer
\* holds the bytes it held before the call, whatever the shape of the value.
C30_FrameDiscipline ==
    (pc = "encoded" /\ ~IsRaw)
        => \A c \in Calls(val, Serializer_new) :
              c[2].st = "ok" => FrameKept(c[1], c[2])

----------------------------------------------------------------------------
(* The tracker client's properties.  A request has its action at offset 8  *)
(* and a response at offset 0; both have the transaction id after it.      *)

\* the operation op has returned after recv handed it a datagram
Received(op) ==
    /\ rx # <<>> /\ req.op = op /\ res.op = op
    /\ tpc \in {"ready", "failed", "dead"}

ResponseAction(r) == read_i32(r.buf, 0)
ResponseTid(r) == read_i32(r.buf, 4)

\* the error value Server(msg) with the lossy decoding of bytes 8..len
IsServerError(result, r) ==
    /\ result.st = "err" /\ result.err = "Server"
    /\ result.val = <<"message", [i \in 1..(r.len - 8) |->
                          IF r.buf[8 + i] < 128 THEN r.buf[8 + i] ELSE 65533]>>

\* C11: connect returns the connection id, the big-endian bytes 8..16 of the
\* response, only for a response with action CONNECT and the transaction id
\* that was sent; it fails with Timeout when nothing arrives, with
\* IncorrectTransactionId on another transaction id, with IncorrectAction
\* on an action that is neither CONNECT nor ERROR, and with Server(msg) on
\* an ERROR response.  (Where two of the cases apply, either error is taken
\* as meeting the claim.)
C11_ConnectOutcome ==
    /\ (res.op = "connect" /\ res.st = "ok")
          => /\ rx # <<>>
             /\ ResponseAction(rx[1]) = ACTION_CONNECT
             /\ ResponseTid(rx[1]) = req.tid
             /\ write_i64(res.val[2]) = SubSeq(rx[1].buf, 9, 16)
    /\ (res.op = "connect" /\ tpc = "failed" /\ rx = <<>> /\ port # 0)
          => (res.st = "err" /\ res.err = "Timeout")
    /\ (Received("connect") /\ ResponseAction(rx[1]) = ACTION_ERROR)
          => \/ IsServerError(res, rx[1])
             \/ (ResponseTid(rx[1]) # req.tid /\ res.st = "err"
                    /\ res.err = "IncorrectTransactionId")
    /\ (Received("connect") /\ ResponseAction(rx[1]) \notin {ACTION_CONNECT, ACTION_ERROR})
          => /\ res.st = "err"
             /\ \/ res.err = "IncorrectAction"
                \/ (ResponseTid(rx[1]) # req.tid /\ res.err = "IncorrectTransactionId")
    /\ (Received("connect") /\ ResponseAction(rx[1]) = ACTION_CONNECT
            /\ ResponseTid(rx[1]) # req.tid)
          => (res.st = "err" /\ res.err = "IncorrectTransactionId")

\* C12: for connect, announce and scrape alike, a response of at least 8
\* bytes with action ERROR makes the operation return Server(msg), msg being
\* the lossy UTF-8 decoding of bytes 8..len: none of them returns success
\* after the tracker answered with ERROR.
C12_ServerErrorsSurface ==
    \A op \in {"connect", "announce", "scrape"} :
        (Received(op) /\ ResponseAction(rx[1]) = ACTION_ERROR /\ rx[1].len >= 8)
            => IsServerError(res, rx[1])

\* C13: an ANNOUNCE or SCRAPE request is sent only on a socket on which a
\* CONNECT response with action 0 and the transaction id of the connect
\* request was accepted before: the Connection comes to exist only by
\* accepting such a response, requests other than the connect request are
\* sent only through a Connection, and after a connect response with
\* another transaction id Connection::new has failed, no Connection exists
\* and nothing more is sent.
C13_ConnectBeforeAnnounce ==
    [][/\ (sent' # sent /\ read_i32(sent', 8) \in {ACTION_ANNOUNCE, ACTION_SCRAPE})
             => (conn # <<>> /\ conn' = conn)
       /\ conn' # conn
             => /\ conn = <<>> /\ tpc = "connect_wait" /\ rx' # <<>>
                /\ ResponseAction(rx'[1]) = ACTION_CONNECT
                /\ ResponseTid(rx'[1]) = req.tid
                /\ read_i32(sent, 8) = ACTION_CONNECT /\ read_i32(sent, 12) = req.tid
                /\ write_i64(conn'[1].id) = SubSeq(rx'[1].buf, 9, 16)
       /\ (tpc = "connect_wait" /\ rx' # <<>> /\ ResponseTid(rx'[1]) # req.tid)
             => (tpc' \in {"failed", "dead"} /\ conn' = <<>> /\ res'.st # "ok")
       /\ (tpc \in {"failed", "dead"} /\ conn = <<>>)
             => (sent' = sent /\ conn' = conn /\ tpc' = tpc)
      ]_vars

\* an announce request is on the wire of a socket that accepted a connect
\* response
C13_Witness ==
    /\ tpc = "announce_wait" /\ conn # <<>>
    /\ read_i32(sent, 8) = ACTION_ANNOUNCE
    /\ SubSeq(sent, 1, 8) = write_i64(conn[1].id)

WaitingStates == {"connect_wait", "announce_wait", "scrape_wait"}

\* C14: a recv that gets no datagram within the deadline ends the operation
\* with Timeout, and with the timer and the socket scheduled fairly every
\* connect, announce and scrape that waits for its response eventually
\* returns a value to its caller, whatever the tracker sends or does not
\* send.
C14_TimeoutNoDeadlock ==
    /\ [][(tpc \in WaitingStates /\ inbox = <<>> /\ tpc' # tpc)
             => (res'.op = req.op /\ res'.st = "err" /\ res'.err = "Timeout")]_vars
    /\ (tpc \in WaitingStates) ~> (tpc \in {"ready", "failed"})

\* C15: an announce or scrape that fails with Server, with a mismatch of
\* transaction id or action, or with Timeout leaves the Connection as it
\* was (connection id, local port, socket) and usable, and an announce made
\* afterwards carries the same connection id and port.
C15_ErrorsKeepConnection ==
    [][/\ (tpc \in {"announce_wait", "scrape_wait"} /\ res' # res /\ res'.st = "err")
             => (conn' = conn /\ port' = port /\ busy' = busy /\ tpc' = "ready")
       /\ (tpc = "ready" /\ tpc' = "announce_wait")
             => /\ conn' = conn /\ port' = port
                /\ SubSeq(sent', 1, 8) = write_i64(conn[1].id)
                /\ read_u16(sent', 96) = conn[1].port
      ]_vars

\* a second operation, an announce, was sent after the first one failed
C15_Witness ==
    /\ ops = 2 /\ tpc = "announce_wait"
    /\ res.op \in {"announce", "scrape"} /\ res.st = "err"
    /\ res.err \in {"Server", "Timeout", "Tokio"}
    /\ SubSeq(sent, 1, 8) = write_i64(conn[1].id)
    /\ read_u16(sent, 96) = port

\* C16: the ports 6881..6889 are tried in ascending order, each at most
\* once and the next one only after a failure to bind; the socket is bound
\* to the lowest port that can be bound and that port is remembered;
\* Connection::new fails with PortsExhausted exactly when none of the nine
\* can be bound, and then no packet is sent.
C16_Bind ==
    tpc # "init" =>
        /\ \A i \in 1..Len(tried) : tried[i] = FIRST_PORT + i - 1
        /\ Len(tried) <= LAST_PORT - FIRST_PORT + 1
        /\ \A i \in 1..(Len(tried) - 1) : tried[i] \in busy
        /\ port # 0 => /\ port \notin busy
                       /\ port = tried[Len(tried)]
                       /\ \A q \in FIRST_PORT..LAST_PORT : q \notin busy => port <= q
        /\ conn # <<>> => conn[1].port = port
        /\ (res.st = "err" /\ res.err = "PortsExhausted")
              <=> (\A q \in FIRST_PORT..LAST_PORT : q \in busy)
        /\ (res.st = "err" /\ res.err = "PortsExhausted")
              => (sent = <<>> /\ port = 0 /\ tpc = "failed")

\* the two lowest ports and a later one are held: the third was bound
C16_Witness ==
    /\ tpc = "connect_wait" /\ port = FIRST_PORT + 2
    /\ tried = <<FIRST_PORT, FIRST_PORT + 1, FIRST_PORT + 2>>
    /\ busy = {FIRST_PORT, FIRST_PORT + 1, FIRST_PORT + 3}

\* what every announce request holds besides its length
AnnounceFields(packet) ==
    /\ SubSeq(packet, 1, 8) = write_i64(conn[1].id)
    /\ read_i32(packet, 8) = ACTION_ANNOUNCE
    /\ read_i32(packet, 12) = req.tid
    /\ SubSeq(packet, 17, 36) \in {h.val : h \in {x \in HashedInfoDicts : x.st = "ok"}}
    /\ SubSeq(packet, 37, 36 + Len(PEER_ID_PREFIX)) = PEER_ID_PREFIX
    /\ read_i32(packet, 80) = EVENT_STARTED
    /\ read_i32(packet, 92) = NUM_WANT
    /\ read_u16(packet, 96) = port /\ port \notin busy

\* neither length assertion of get_announce_request can fail
AnnounceAssertionsHold ==
    \A h \in HashedInfoDicts, t \in Tids, random \in RandomStreams, key \in RandomKeys :
        (conn # <<>> /\ h.st = "ok") => AnnounceRequest(conn[1], h, t, random, key).st = "ok"

SentAnnounce == sent # <<>> /\ req.op = "announce" /\ read_i32(sent, 8) = ACTION_ANNOUNCE

\* C17 as stated: every announce request is 98 bytes and carries the
\* Connection's connection id, a 20-byte info-hash, a 20-byte peer id that
\* starts with TH-0.1.0---, event started(2), numWant 30 and the port the
\* socket was bound to; the length assertions of get_announce_request never
\* fail.
C17_AnnouncePacket98 ==
    /\ SentAnnounce => (Len(sent) = 98 /\ AnnounceFields(sent))
    /\ AnnounceAssertionsHold

\* C17, amended: the same with the length the layout adds up to, 100 bytes:
\* connection id, action, transaction id, info-hash[20], peer id[20],
\* downloaded, left, uploaded, event, ip, key, numWant, port and the two
\* bytes of extensions.
C17_AnnouncePacket ==
    /\ SentAnnounce => (Len(sent) = 100 /\ AnnounceFields(sent)
                          /\ read_u16(sent, 98) = 0)
    /\ AnnounceAssertionsHold

\* an announce went out from a socket bound to the third port
C17_Witness ==
    /\ SentAnnounce /\ tpc = "announce_wait"
    /\ port = FIRST_PORT + 2 /\ read_u16(sent, 96) = FIRST_PORT + 2

\* the peers of a payload are the 6-byte groups of the datagram after its
\* first 20 bytes, in datagram order
PeersAsReceived(peers, r) ==
    /\ Len(peers) = (r.len - 20) \div PEER_SIZE
    /\ \A k \in 1..Len(peers) :
          write_u32(peers[k].ip) \o write_u16(peers[k].port)
              = SubSeq(r.buf, 20 + PEER_SIZE * (k - 1) + 1, 20 + PEER_SIZE * k)

\* C18: an ANNOUNCE response of 20 + 6k bytes with the transaction id of
\* the request makes announce return interval, leechers and seeders as
\* read big-endian at offsets 8, 12 and 16, and exactly k peers, each the
\* (ip, port) of one 6-byte group, in datagram order; no byte of the
\* receive buffer after the received length becomes a peer.
C18_AnnounceParsing ==
    (Received("announce") /\ ResponseAction(rx[1]) = ACTION_ANNOUNCE
        /\ ResponseTid(rx[1]) = req.tid /\ rx[1].size = rx[1].len
        /\ rx[1].len >= 20 /\ (rx[1].len - 20) % PEER_SIZE = 0)
        => /\ res.st = "ok" /\ res.val[1] = "payload"
           /\ write_i32(res.val[2].interval[2]) = SubSeq(rx[1].buf, 9, 12)
           /\ res.val[2].interval[1] = (IF rx[1].buf[9] >= 128 THEN 0 - 1 ELSE 0)
           /\ write_i32(res.val[2].num_leechers) = SubSeq(rx[1].buf, 13, 16)
           /\ write_i32(res.val[2].num_seeders) = SubSeq(rx[1].buf, 17, 20)
           /\ PeersAsReceived(res.val[2].peers, rx[1])

\* a response with two peers was parsed
C18_Witness ==
    /\ Received("announce") /\ rx[1].len = 32 /\ res.st = "ok"
    /\ Len(res.val[2].peers) = 2
    /\ res.val[2].peers[1] # res.val[2].peers[2]

\* C19: a response larger than the receive buffer, which recv truncates,
\* makes announce return an error value: no payload is built from the
\* truncated data and announce does not abort.
C19_OversizeDatagram ==
    (Received("announce") /\ rx[1].size > RECV_BUF_SIZE) => res.st = "err"

\* C20: connect and announce reject a response whose action is neither the
\* action of the request nor ERROR with the error IncorrectAction.
C20_UnexpectedAction ==
    /\ (Received("connect") /\ rx[1].len >= 16
           /\ ResponseAction(rx[1]) \notin {ACTION_CONNECT, ACTION_ERROR})
          => (res.st = "err" /\ res.err = "IncorrectAction")
    /\ (Received("announce") /\ rx[1].len >= 20
           /\ ResponseAction(rx[1]) \notin {ACTION_ANNOUNCE, ACTION_ERROR})
          => (res.st = "err" /\ res.err = "IncorrectAction")

\* C27: whatever datagram of 1 to 1024 bytes the tracker sends in reply to a
\* connect, announce or scrape request, the operation returns Ok or an
\* error value: none of the assertions on the received data (len >= 16,
\* nread == 16, len >= 20, bytes_left == 0) fails.
C27_NoAbortOnInput ==
    \A op \in {"connect", "announce", "scrape"} :
        (Received(op) /\ rx[1].size >= 1 /\ rx[1].size <= RECV_BUF_SIZE)
            => (res.st \in {"ok", "err"} /\ tpc # "dead")

\* a response with action ANNOUNCE that carries the transaction id of an
\* announce whose recv timed out
LateAnnounceResponse(r) ==
    /\ ResponseAction(r) = ACTION_ANNOUNCE
    /\ [op |-> "announce", tid |-> ResponseTid(r)] \in abandoned

\* announce returns Ok only with a payload whose transaction id is the one
\* it sent
OkOnlyWithOwnTransaction ==
    (Received("announce") /\ res.st = "ok")
        => /\ ResponseAction(rx[1]) = ACTION_ANNOUNCE
           /\ ResponseTid(rx[1]) = req.tid
           /\ res.val[1] = "payload" /\ res.val[2].transaction_id = req.tid

\* C28 as stated: when an announce timed out and its response comes late,
\* while a later announce of the same Connection waits, the later announce
\* never returns the late response's payload; announce returns Ok only with
\* a payload whose transaction id is the one it sent.
C28_StaleNeverReturned ==
    /\ OkOnlyWithOwnTransaction
    /\ (Received("announce") /\ LateAnnounceResponse(rx[1]))
          => (res.st # "ok" /\ ~FromResponse(res.val))

\* C28, amended: the later announce does not return the late response's
\* payload when its own transaction id is another than that of the
\* announce that timed out (the ids are drawn at random and can repeat);
\* announce returns Ok only with a payload whose transaction id is the one
\* it sent.
C28_StaleResponses ==
    /\ OkOnlyWithOwnTransaction
    /\ (Received("announce") /\ LateAnnounceResponse(rx[1])
           /\ ResponseTid(rx[1]) # req.tid)
          => (res.st # "ok" /\ ~FromResponse(res.val))

\* the first announce timed out; the second, sent with another transaction
\* id, received a whole response with two peers that carries the first
\* one's id, and returned an error
C28_Witness ==
    /\ ops = 2 /\ Received("announce")
    /\ abandoned = {[op |-> "announce", tid |-> ResponseTid(rx[1])]}
    /\ ResponseTid(rx[1]) # req.tid
    /\ ResponseAction(rx[1]) = ACTION_ANNOUNCE /\ rx[1].len = 32
    /\ res.st = "err" /\ res.err = "Server" /\ tpc = "ready"

====
